---------------------------- MODULE Spec2Model ----------------------------
(***************************************************************************)
(* A model of documentation/python.py (m.css Python documentation          *)
(* generator): the Name Mapper, the pybind11 signature grammar parser,     *)
(* the visibility filter and the module/class page-tree walker.            *)
(*                                                                         *)
(* Python strings are TLA+ strings; Python None is the empty tuple <<>>    *)
(* and a present optional value v is <<v>>.  A Python exception that       *)
(* leaves a function is the record [exc |-> <name>, val |-> <<>>].         *)
(***************************************************************************)
EXTENDS Integers, Sequences, FiniteSets, TLC

VARIABLES
    module_mapping,   \* State.module_mapping: ordered dict, a sequence of <<key, replacement>>
    call,             \* the call under way: [fn |-> ..., ...arguments]
    ret,              \* its outcome, NoRet before it ends
    stack,            \* the render_module / render_class activations, innermost last
    pages,            \* the pages handed to render(), in order
    state,            \* the other fields of State: the external docs and the indexes
    hooks_called,     \* the calls of the hooks of State.hooks_pre_page, in order
    log,              \* the warnings given to logging.warning(), in order
    run               \* where run() is: [pc |-> ..., i |-> ...]

run_vars == <<state, hooks_called, log, run>>
vars == <<module_mapping, call, ret, stack, pages, state, hooks_called, log, run>>

\* State.__init__ (lines 117-129), module_mapping apart, and a run() that is
\* not under way.
NewState ==
    [module_docs |-> <<>>, class_docs |-> <<>>, data_docs |-> <<>>,
     class_index |-> <<>>, page_index |-> <<>>]
NoRun ==
    /\ state = NewState
    /\ hooks_called = <<>>
    /\ log = <<>>
    /\ run = [pc |-> "", i |-> 0]

---------------------------------------------------------------------------
(* Bounds of the model. *)

MaxKeyLen  == 2     \* longest key of a Name Mapper table
MaxNameLen == 4     \* longest name given to map_name_prefix
MaxEntries == 2     \* most entries of a Name Mapper table
MaxTypeTokens == 3  \* most type tokens in a generated type string
MaxArgs == 2        \* most arguments in a generated signature
MaxOverloads == 2   \* most numbered blocks in a generated overload docstring
MaxMembers == 3     \* most attributes of the root module
MaxExports == 2     \* most names in the root module's __all__
RecursionLimit == 4 \* most nested activations the interpreter allows
MaxParams == 3      \* most parameters in a generated function docstring

---------------------------------------------------------------------------
(* Python string primitives. *)

Ch(s, i) == SubSeq(s, i, i)                       \* s[i-1], "" past the end
Take(s, n) == SubSeq(s, 1, n)                     \* s[:n], 0 <= n <= len(s)
Drop(s, n) == SubSeq(s, n + 1, Len(s))            \* s[n:], 0 <= n
StartsWith(s, p) == Len(p) <= Len(s) /\ Take(s, Len(p)) = p

Min(S) == CHOOSE x \in S : \A y \in S : x <= y

RECURSIVE StringsUpTo(_, _)
StringsUpTo(A, n) ==
    IF n = 0 THEN {""}
    ELSE LET P == StringsUpTo(A, n - 1) IN P \cup { s \o c : s \in P, c \in A }

NoRet == [exc |-> "pending", val |-> <<>>]
Ok(v) == [exc |-> "", val |-> v]
Raise(e) == [exc |-> e, val |-> <<>>]

---------------------------------------------------------------------------
(* Name Mapper: map_name_prefix. *)

\* A test that forgets the dot: any name that begins with the key matches.
PrefixMatches_NoBoundary(type, prefix) ==
    type = prefix \/ StartsWith(type, prefix)

\* The test of one table entry (line 140).
PrefixMatches(type, prefix) ==
    type = prefix \/ StartsWith(type, prefix \o ".")

\* for prefix, replace in state.module_mapping.items(): first hit returns.
RECURSIVE map_name_prefix_from(_, _, _)
map_name_prefix_from(mapping, i, type) ==
    IF i > Len(mapping) THEN type
    ELSE IF PrefixMatches(type, mapping[i][1])
         THEN mapping[i][2] \o Drop(type, Len(mapping[i][1]))
         ELSE map_name_prefix_from(mapping, i + 1, type)

map_name_prefix(mapping, type) == map_name_prefix_from(mapping, 1, type)

---------------------------------------------------------------------------
(* More string primitives (str.find, slices, str.split, str.join). *)

\* s.find(sub): 0-based index of the first occurrence, -1 when there is none.
FirstOf(S) == IF S = {} THEN -1 ELSE Min(S)
Find(s, sub) ==
    FirstOf({ i \in 0..(Len(s) - Len(sub)) : SubSeq(s, i + 1, i + Len(sub)) = sub })

\* s[a:b] for 0 <= a and 0 <= b.
SliceTo(s, a, b) ==
    IF a >= b \/ a >= Len(s) THEN ""
    ELSE SubSeq(s, a + 1, IF b > Len(s) THEN Len(s) ELSE b)

\* s[a:b] for a >= 0 and any integer b: a negative b counts from the end.
PySlice(s, a, b) ==
    IF b >= 0 THEN SliceTo(s, a, b)
    ELSE IF b + Len(s) < 0 THEN ""
    ELSE SliceTo(s, a, b + Len(s))

\* sep.join(parts)
RECURSIVE Join(_, _)
Join(parts, sep) ==
    IF Len(parts) = 0 THEN ""
    ELSE IF Len(parts) = 1 THEN parts[1]
    ELSE parts[1] \o sep \o Join(Tail(parts), sep)

\* s.split('\n'); SplitAt is given s.find('\n').
RECURSIVE SplitLines(_)
SplitAt(s, nl) ==
    IF nl = -1 THEN <<s>>
    ELSE <<Take(s, nl)>> \o SplitLines(Drop(s, nl + 1))
SplitLines(s) == SplitAt(s, Find(s, "\n"))

\* str(n) for n >= 0
Digit(d) == Ch("0123456789", d + 1)
RECURSIVE Str(_)
Str(n) == IF n < 10 THEN Digit(n) ELSE Str(n \div 10) \o Digit(n % 10)

---------------------------------------------------------------------------
(* The character classes of the four regular expressions (lines 193-196).  *)

Lower == {"a","b","c","d","e","f","g","h","i","j","k","l","m",
          "n","o","p","q","r","s","t","u","v","w","x","y","z"}
Upper == {"A","B","C","D","E","F","G","H","I","J","K","L","M",
          "N","O","P","Q","R","S","T","U","V","W","X","Y","Z"}
Digits == {"0","1","2","3","4","5","6","7","8","9"}

\* A class is [neg |-> BOOLEAN, set |-> characters].
_pybind_name_rx          == [neg |-> FALSE, set |-> Lower \cup Upper \cup Digits \cup {"_"}]
_pybind_arg_name_rx      == [neg |-> FALSE, set |-> Lower \cup Upper \cup Digits \cup {"_", "*"}]
_pybind_type_rx          == [neg |-> FALSE, set |-> Lower \cup Upper \cup Digits \cup {"_", "."}]
_pybind_default_value_rx == [neg |-> TRUE,  set |-> {",", ")"}]

InClass(c, class) == IF class.neg THEN c \notin class.set ELSE c \in class.set

\* The text a greedy character-class pattern matches at the start of s
\* ("" when the first character is outside the class).
RECURSIVE MatchLen(_, _, _)
MatchLen(class, s, i) ==
    IF i < Len(s) /\ InClass(Ch(s, i + 1), class) THEN MatchLen(class, s, i + 1) ELSE i

RxMatch(class, s) == Take(s, MatchLen(class, s, 0))

---------------------------------------------------------------------------
(* extract_summary, with inspect.cleandoc and html.escape.                 *)

None == <<>>
Some(v) == <<v>>

RECURSIVE LStripLen(_, _)
LStripLen(s, i) == IF i < Len(s) /\ Ch(s, i + 1) = " " THEN LStripLen(s, i + 1) ELSE i
LStrip(s) == Drop(s, LStripLen(s, 0))

RECURSIVE DropLeadingBlank(_)
DropLeadingBlank(lines) ==
    IF Len(lines) > 0 /\ lines[1] = "" THEN DropLeadingBlank(Tail(lines)) ELSE lines
RECURSIVE DropTrailingBlank(_)
DropTrailingBlank(lines) ==
    IF Len(lines) > 0 /\ lines[Len(lines)] = ""
    THEN DropTrailingBlank(SubSeq(lines, 1, Len(lines) - 1)) ELSE lines

\* inspect.cleandoc: the first line loses its leading blanks, the others
\* their common margin, then blank lines at both ends are removed.
Indents(lines) ==
    { LStripLen(lines[i], 0) : i \in { j \in 2..Len(lines) : LStrip(lines[j]) # "" } }

StripMargin(lines, indents) ==
    [ i \in 1..Len(lines) |->
        IF i = 1 THEN LStrip(lines[1])
        ELSE IF indents = {} THEN lines[i]
        ELSE Drop(lines[i], Min(indents)) ]

CleanLines(lines) ==
    Join(DropLeadingBlank(DropTrailingBlank(StripMargin(lines, Indents(lines)))), "\n")

cleandoc(doc) == CleanLines(SplitLines(doc))

EscapeChar(c) ==
    CASE c = "&"  -> "&amp;"
      [] c = "<"  -> "&lt;"
      [] c = ">"  -> "&gt;"
      [] c = "\"" -> "&quot;"
      [] c = "'"  -> "&#x27;"
      [] OTHER    -> c

RECURSIVE html_escape(_)
html_escape(s) == IF s = "" THEN "" ELSE EscapeChar(Ch(s, 1)) \o html_escape(Drop(s, 1))

\* Lines 327-328: the text up to the first blank line, escaped; end is what
\* doc.find('\n\n') gave.
UpToBlankLine(doc, end) == html_escape(IF end = -1 THEN doc ELSE Take(doc, end))
FirstParagraph(doc) == UpToBlankLine(doc, Find(doc, "\n\n"))

\* extract_summary without an external entry for the path (lines 325-328).
extract_summary_doc(doc) ==
    IF doc = "" THEN "" ELSE FirstParagraph(cleandoc(doc))

\* Lines 984-985: render_inline_rst of a source without inline markup, the
\* only kind the supplied entries hold: the text with its special
\* characters escaped, in no paragraph element.
render_inline_rst(source) == html_escape(source)

\* A summary that prefers an external entry whatever its summary is.
extract_summary_AnyEntry(external_docs, path, doc) ==
    IF \E k \in 1..Len(external_docs) : external_docs[k].key = Join(path, ".")
    THEN render_inline_rst(
             external_docs[CHOOSE k \in 1..Len(external_docs) :
                               external_docs[k].key = Join(path, ".")].summary)
    ELSE extract_summary_doc(doc)

\* Lines 319-328: external_docs is a sequence of entries, of distinct keys.
extract_summary(external_docs, path, doc) ==
    IF \E k \in 1..Len(external_docs) :
           external_docs[k].key = Join(path, ".") /\ external_docs[k].summary # ""
    THEN render_inline_rst(
             external_docs[CHOOSE k \in 1..Len(external_docs) :
                               external_docs[k].key = Join(path, ".")].summary)
    ELSE extract_summary_doc(doc)

\* The url of the page of a path: breadcrumb[-1][1] (lines 624-632).
make_url(path) == Join(path, ".") \o ".html"

---------------------------------------------------------------------------
(* Signature Grammar Parser: parse_pybind_type.                            *)

\* The pair (signature, type) that parse_pybind_type returns.
TypeResult(signature, type) == [exc |-> "", sig |-> signature, type |-> type]
TypeRaise(e) == [exc |-> e, sig |-> "", type |-> ""]

\* What is appended between two generic parameters (line 212).
ParamSeparator == ", "

\* A type token left as it was read, the Name Mapper not applied.
MapTypeToken_Identity(mapping, input_type) == input_type

\* The image of one type token (line 201).
MapTypeToken(mapping, input_type) == map_name_prefix(mapping, input_type)

RECURSIVE parse_pybind_type(_, _)
RECURSIVE parse_pybind_type_params(_, _, _)

\* Lines 199-202 and 218; match() gives None when no token starts the text,
\* and None.group raises AttributeError.
parse_pybind_type(mapping, signature) ==
    LET input_type == RxMatch(_pybind_type_rx, signature)
        rest       == Drop(signature, Len(input_type))
        type       == MapTypeToken(mapping, input_type)
    IN  IF input_type = "" THEN TypeRaise("AttributeError")
        ELSE IF rest # "" /\ Ch(rest, 1) = "["
             THEN parse_pybind_type_params(mapping, Drop(rest, 1), type \o "[")
             ELSE TypeResult(rest, type)

\* The while loop of lines 205-212 and the closing bracket of 214-216;
\* signature[0] on an exhausted text raises IndexError.
parse_pybind_type_params(mapping, signature, type) ==
    IF signature = "" THEN TypeRaise("IndexError")
    ELSE IF Ch(signature, 1) = "]" THEN TypeResult(Drop(signature, 1), type \o "]")
    ELSE LET inner == parse_pybind_type(mapping, signature)
         IN  IF inner.exc # "" THEN inner
             ELSE IF inner.sig = "" THEN TypeRaise("IndexError")
             ELSE IF Ch(inner.sig, 1) = "]"
                  THEN TypeResult(Drop(inner.sig, 1), type \o inner.type \o "]")
             ELSE IF ~StartsWith(inner.sig, ", ") THEN TypeRaise("AssertionError")
             ELSE parse_pybind_type_params(mapping, Drop(inner.sig, 2),
                                           type \o inner.type \o ParamSeparator)

---------------------------------------------------------------------------
(* Signature Grammar Parser: parse_pybind_signature.                       *)

\* The parameter name of the degenerate tuple is U+2026 HORIZONTAL ELLIPSIS;
\* it is written here with a character that is in none of the four classes
\* either (apart from the default-value class, which takes everything but
\* "," and ")").
Ellipsis == "~"

\* Lines 257-263 and 278-284: the tuple returned when the text does not
\* parse; end is what original_signature.find('\n') gave.
DegenerateTupleAt(name, original_signature, end) ==
    <<name,
      IF end # -1 /\ Len(original_signature) > end + 1
         /\ Ch(original_signature, end + 2) = "\n"
      THEN extract_summary_doc(Drop(original_signature, end + 1))
      ELSE "",
      << <<Ellipsis, None, None>> >>,
      None>>

DegenerateTuple(name, original_signature) ==
    DegenerateTupleAt(name, original_signature, Find(original_signature, "\n"))

\* Each step of parse_pybind_signature is an operator that takes what the
\* steps before it computed: mapping, the unparsed text (signature), the
\* text as given (original_signature), the parsed name and the arguments
\* parsed so far (args).

\* Lines 277-291: what follows the return type, and the summary.
parse_pybind_signature_summary(original_signature, name, signature, args, return_type) ==
    IF signature # "" /\ Ch(signature, 1) # "\n"
    THEN Ok(DegenerateTuple(name, original_signature))
    ELSE Ok(<<name,
              IF Len(signature) > 1 /\ Ch(signature, 2) = "\n"
              THEN extract_summary_doc(Drop(signature, 2)) ELSE "",
              args, return_type>>)

\* Line 273, given what parse_pybind_type returned or raised.
parse_pybind_signature_returned(original_signature, name, args, rt) ==
    IF rt.exc # "" THEN Raise(rt.exc)
    ELSE parse_pybind_signature_summary(original_signature, name, rt.sig, args, Some(rt.type))

\* Lines 267-275: the closing parenthesis and the optional return type;
\* signature starts with ")" here.
parse_pybind_signature_tail(mapping, original_signature, name, signature, args) ==
    IF StartsWith(Drop(signature, 1), " -> ")
    THEN parse_pybind_signature_returned(original_signature, name, args,
             parse_pybind_type(mapping, Drop(signature, 5)))
    ELSE parse_pybind_signature_summary(original_signature, name, Drop(signature, 1),
                                        args, None)

RECURSIVE parse_pybind_signature_args(_, _, _, _, _)

\* Lines 253-265: the text left after an argument; signature[0] on an
\* exhausted text raises IndexError.
parse_pybind_signature_after_arg(mapping, original_signature, name, signature, args) ==
    IF signature = "" THEN Raise("IndexError")
    ELSE IF Ch(signature, 1) = ")"
         THEN parse_pybind_signature_tail(mapping, original_signature, name, signature, args)
    ELSE IF ~StartsWith(signature, ", ")
         THEN Ok(DegenerateTuple(name, original_signature))
    ELSE parse_pybind_signature_args(mapping, original_signature, name,
                                     Drop(signature, 2), args)

\* Lines 246-251, given the match of the default-value pattern ("" for None,
\* whose .group raises AttributeError); signature starts at the value.
parse_pybind_signature_defaulted(mapping, original_signature, name, signature, args, arg_name, arg_type, default) ==
    IF default = "" THEN Raise("AttributeError")
    ELSE parse_pybind_signature_after_arg(mapping, original_signature, name,
             Drop(signature, Len(default)),
             Append(args, <<arg_name, arg_type, Some(default)>>))

\* Lines 244-251: the optional default.
parse_pybind_signature_default(mapping, original_signature, name, signature, args, arg_name, arg_type) ==
    IF StartsWith(signature, "=")
    THEN parse_pybind_signature_defaulted(mapping, original_signature, name,
             Drop(signature, 1), args, arg_name, arg_type,
             RxMatch(_pybind_default_value_rx, Drop(signature, 1)))
    ELSE parse_pybind_signature_after_arg(mapping, original_signature, name, signature,
             Append(args, <<arg_name, arg_type, None>>))

\* Line 238, given what parse_pybind_type returned or raised.
parse_pybind_signature_typed(mapping, original_signature, name, args, arg_name, ty) ==
    IF ty.exc # "" THEN Raise(ty.exc)
    ELSE parse_pybind_signature_default(mapping, original_signature, name, ty.sig, args,
                                        arg_name, Some(ty.type))

\* Lines 231-240, given the match of the argument-name pattern.
parse_pybind_signature_named(mapping, original_signature, name, signature, args, arg_name) ==
    IF arg_name = "" THEN Raise("AttributeError")
    ELSE IF StartsWith(Drop(signature, Len(arg_name)), ": ")
         THEN parse_pybind_signature_typed(mapping, original_signature, name, args, arg_name,
                  parse_pybind_type(mapping, Drop(signature, Len(arg_name) + 2)))
    ELSE parse_pybind_signature_default(mapping, original_signature, name,
             Drop(signature, Len(arg_name)), args, arg_name, None)

\* The head of the while loop, line 229.
parse_pybind_signature_args(mapping, original_signature, name, signature, args) ==
    IF signature = "" THEN Raise("IndexError")
    ELSE IF Ch(signature, 1) = ")"
         THEN parse_pybind_signature_tail(mapping, original_signature, name, signature, args)
    ELSE parse_pybind_signature_named(mapping, original_signature, name, signature, args,
                                      RxMatch(_pybind_arg_name_rx, signature))

\* Lines 225-226, given the match of the name pattern.
parse_pybind_signature_open(mapping, signature, name) ==
    IF Len(signature) = Len(name) THEN Raise("IndexError")
    ELSE IF Ch(signature, Len(name) + 1) # "(" THEN Raise("AssertionError")
    ELSE parse_pybind_signature_args(mapping, signature, name,
                                     Drop(signature, Len(name) + 1), <<>>)

parse_pybind_signature(mapping, signature) ==
    parse_pybind_signature_open(mapping, signature, RxMatch(_pybind_name_rx, signature))

---------------------------------------------------------------------------
(* Signature Grammar Parser: parse_pybind_docstring.                       *)

OverloadHeader(name) == name \o "(*args, **kwargs)\nOverloaded function.\n\n"
OverloadMarker(id, name) == Str(id) \o ". " \o name \o "("

\* Line 306: the slice of doc handed to parse_pybind_signature; id is the
\* number of the block and next what doc.find gave for the marker after it.
OverloadSlice(doc, id, next) == PySlice(doc, Len(Str(id)) + 2, next)

RECURSIVE parse_pybind_overloads(_, _, _, _, _)

\* Lines 306-311, given what parse_pybind_signature returned or raised for
\* the block.
parse_pybind_overloads_parsed(mapping, name, doc, id, overloads, next, one) ==
    IF one.exc # "" THEN one
    ELSE IF one.val[1] # name THEN Raise("AssertionError")
    ELSE IF next = -1 THEN Ok(Append(overloads, one.val))
    ELSE parse_pybind_overloads(mapping, name, Drop(doc, next), id + 1,
                                Append(overloads, one.val))

\* Lines 303-306, given what doc.find returned for the next marker.
parse_pybind_overloads_found(mapping, name, doc, id, overloads, next) ==
    parse_pybind_overloads_parsed(mapping, name, doc, id, overloads, next,
        parse_pybind_signature(mapping, OverloadSlice(doc, id, next)))

\* The loop of lines 300-311; id is the number of the block doc starts with.
parse_pybind_overloads(mapping, name, doc, id, overloads) ==
    IF ~StartsWith(doc, OverloadMarker(id, name)) THEN Raise("AssertionError")
    ELSE parse_pybind_overloads_found(mapping, name, doc, id, overloads,
                                      Find(doc, OverloadMarker(id + 1, name)))

\* Line 317, given what parse_pybind_signature returned or raised.
parse_pybind_single(one) == IF one.exc # "" THEN one ELSE Ok(<<one.val>>)

parse_pybind_docstring(mapping, name, doc) ==
    IF StartsWith(doc, OverloadHeader(name))
    THEN parse_pybind_overloads(mapping, name, Drop(doc, Len(OverloadHeader(name))), 1, <<>>)
    ELSE parse_pybind_single(parse_pybind_signature(mapping, doc))

---------------------------------------------------------------------------
(* Function Doc Extractor: extract_function_doc.                           *)

\* A value Python takes for true: a string that is there and not empty.
Truthy(opt) == opt # None /\ opt[1] # ""

\* 'arg{}'.format(i)
ArgName(i) == "arg" \o Str(i)

\* A naming test that passes over *args and **kwargs.
positional_only_SkipVariadic(is_method, args) ==
    \A i \in 1..Len(args) :
        \/ args[i][1] \in {"*args", "**kwargs"}
        \/ is_method /\ i = 1
        \/ args[i][1] = ArgName(Cardinality({ j \in 1..(i - 1) :
                             args[j][1] \notin {"*args", "**kwargs"} })
                             - (IF is_method THEN 1 ELSE 0))

\* Lines 474-493: the loops that look for the first name that is not
\* arg0, arg1, ..., over args[1:] for a method and over args otherwise.
positional_only(is_method, args) ==
    IF is_method
    THEN \A i \in 2..Len(args) : args[i][1] = ArgName(i - 2)
    ELSE \A i \in 1..Len(args) : args[i][1] = ArgName(i - 1)

\* Lines 460-465: is_staticmethod of an overload.
pybind_is_staticmethod(parent, args) ==
    ~(parent = "class" /\ args # <<>> /\ args[1][1] = "self")

\* Lines 495-514: the parameter made of one (name, type, default).
pybind_param(arg, all_positional_only) ==
    [name |-> IF arg[1] = "*args" THEN "args"
              ELSE IF arg[1] = "**kwargs" THEN "kwargs" ELSE arg[1],
     type |-> IF arg[1] = "self" THEN None ELSE arg[2],
     default |-> html_escape(IF Truthy(arg[3]) THEN arg[3][1] ELSE ""),
     kind |-> IF arg[1] = "*args" THEN "VAR_POSITIONAL"
              ELSE IF arg[1] = "**kwargs" THEN "VAR_KEYWORD"
              ELSE IF all_positional_only THEN "POSITIONAL_ONLY"
              ELSE "POSITIONAL_OR_KEYWORD"]

\* Line 503: has_complex_params once the loop over args is through.
pybind_has_complex_params(args) ==
    \E i \in 1..Len(args) : Truthy(args[i][2]) \/ Truthy(args[i][3])

\* Lines 446-516: the record of one (name, summary, args, type) of
\* parse_pybind_docstring; the assert of line 477 cannot fail.
pybind_overload(parent, path_name, summary, args, type) ==
    [name |-> path_name,
     params |-> [ i \in 1..Len(args) |->
                    pybind_param(args[i],
                        positional_only(parent = "class" /\ ~pybind_is_staticmethod(parent, args),
                                        args)) ],
     has_complex_params |-> pybind_has_complex_params(args),
     has_details |-> FALSE,
     summary |-> summary,
     type |-> IF type = Some("None") THEN None ELSE type,
     is_classmethod |-> Some(FALSE),
     is_staticmethod |-> Some(pybind_is_staticmethod(parent, args))]

\* Lines 444-518, given what parse_pybind_docstring returned or raised.
extract_function_doc_parsed(parent, path_name, funcs) ==
    IF funcs.exc # "" THEN funcs
    ELSE Ok([ k \in 1..Len(funcs.val) |->
                pybind_overload(parent, path_name, funcs.val[k][2], funcs.val[k][3],
                                funcs.val[k][4]) ])

\* extract_annotation (lines 334-349) of an annotation that is absent or a
\* string.
extract_annotation(mapping, annotation) ==
    IF annotation = None THEN None ELSE Some(map_name_prefix(mapping, annotation[1]))

\* Lines 539-551: the parameter of one inspect.Parameter; default holds
\* repr(i.default) when there is one.
introspected_param(mapping, i) ==
    [name |-> i.name, type |-> extract_annotation(mapping, i.annotation),
     default |-> i.default, kind |-> i.kind]

\* Lines 520-565: the introspection path; function.signature is None when
\* inspect.signature raises ValueError, and the attributes is_classmethod
\* and is_staticmethod are set for a member of a class only.
extract_function_doc_introspected(mapping, parent, path_name, function) ==
    [name |-> path_name,
     params |-> IF function.signature = None
                THEN << [name |-> "...", name_type |-> "..."] >>
                ELSE [ k \in 1..Len(function.signature[1].parameters) |->
                         introspected_param(mapping, function.signature[1].parameters[k]) ],
     has_complex_params |->
         /\ function.signature # None
         /\ \E k \in 1..Len(function.signature[1].parameters) :
                \/ Truthy(extract_annotation(mapping,
                              function.signature[1].parameters[k].annotation))
                \/ function.signature[1].parameters[k].default # None,
     has_details |-> FALSE,
     summary |-> extract_summary(<<>>, <<>>,
                                 IF function.doc = None THEN "" ELSE function.doc[1]),
     type |-> IF function.signature = None THEN None
              ELSE extract_annotation(mapping, function.signature[1].return_annotation),
     is_classmethod |-> IF parent = "class" THEN Some(function.flavor = "classmethod")
                        ELSE None,
     is_staticmethod |-> IF parent = "class" THEN Some(function.flavor = "staticmethod")
                         ELSE None]

\* Lines 434-565; parent is "class" when inspect.isclass(parent), function
\* holds __doc__ (None or the text), and None.startswith raises
\* AttributeError.
extract_function_doc(mapping, pybind, parent, path_name, function) ==
    IF pybind /\ function.doc = None THEN Raise("AttributeError")
    ELSE IF pybind /\ StartsWith(function.doc[1], path_name)
    THEN extract_function_doc_parsed(parent, path_name,
             parse_pybind_docstring(mapping, path_name, function.doc[1]))
    ELSE Ok(<<extract_function_doc_introspected(mapping, parent, path_name, function)>>)

---------------------------------------------------------------------------
(* Specification SpecMap: map_name_prefix applied to every bounded table   *)
(* and name.                                                               *)

NameAlphabet == {"a", "."}
MapKeys  == StringsUpTo(NameAlphabet, MaxKeyLen) \ {""}
MapNames == StringsUpTo(NameAlphabet, MaxNameLen)

\* The replacement of the i-th registered entry; distinct per position so
\* that the entry that answered can be told from the result.
Replacement(i) == IF i % 2 = 1 THEN "x" ELSE "y.z"

\* dict: keys are unique, iteration is in insertion order.
MapTables ==
    UNION { { [i \in 1..n |-> <<ks[i], Replacement(i)>>] :
                ks \in { f \in [1..n -> MapKeys] :
                           \A i, j \in 1..n : i # j => f[i] # f[j] } } :
            n \in 0..MaxEntries }

InitMap ==
    /\ module_mapping \in MapTables
    /\ call \in { [fn |-> "map_name_prefix", type |-> n] : n \in MapNames }
    /\ ret = NoRet
    /\ stack = <<>>
    /\ pages = <<>>
    /\ NoRun

CallMapNamePrefix ==
    /\ call.fn = "map_name_prefix"
    /\ ret = NoRet
    /\ ret' = Ok(map_name_prefix(module_mapping, call.type))
    /\ UNCHANGED <<module_mapping, call, stack, pages>>
    /\ UNCHANGED run_vars

NextMap == CallMapNamePrefix

SpecMap == InitMap /\ [][NextMap]_vars

---------------------------------------------------------------------------
(* C1 *)

\* key matches name at a dotted-segment boundary: the name is the key, or
\* continues it with a "." right after the key's last character.
MatchesAtBoundary(name, key) ==
    \/ name = key
    \/ /\ Len(name) > Len(key)
       /\ \A i \in 1..Len(key) : Ch(name, i) = Ch(key, i)
       /\ Ch(name, Len(key) + 1) = "."

MatchingEntries(mapping, name) ==
    { i \in 1..Len(mapping) : MatchesAtBoundary(name, mapping[i][1]) }

\* C1: map_name_prefix returns replacement + n[len(key):] for the first key
\* in registration order that equals n or is followed in n by ".", and n
\* unchanged when no key matches at a dotted-segment boundary.
C1_MapNamePrefix ==
    (call.fn = "map_name_prefix" /\ ret # NoRet) =>
        LET n == call.type
            hits == MatchingEntries(module_mapping, n)
        IN  /\ ret.exc = ""
            /\ IF hits = {} THEN ret.val = n
               ELSE LET i == Min(hits)
                    IN ret.val = module_mapping[i][2]
                                   \o Drop(n, Len(module_mapping[i][1]))

\* Two registered keys match the name, the first one answered, and a third
\* kind of key (a plain character prefix that stops inside a segment) was
\* passed over.
C1_Witness ==
    /\ call.fn = "map_name_prefix" /\ ret # NoRet
    /\ Len(module_mapping) = 2
    /\ MatchingEntries(module_mapping, call.type) = {1, 2}
    /\ Len(module_mapping[2][1]) > Len(module_mapping[1][1])
    /\ ret.val = "x" \o Drop(call.type, Len(module_mapping[1][1]))

---------------------------------------------------------------------------
(* Specification SpecParse: the three parser entry points applied to       *)
(* bounded sets of texts, well-formed and not.                             *)

Prefixes(s) == { Take(s, n) : n \in 0..Len(s) }

SeqsUpTo(S, n) == UNION { [1..k -> S] : k \in 0..n }

\* The tables the parser runs under.
ParseTables == { <<>>, << <<"m", "lib">> >> }

\* Type strings of the grammar  type ::= token | token '[' (type (', ' type)*)? ']'
\* with exactly n tokens.
TypeTokens == {"int", "m.T"}

RECURSIVE TypesOfSize(_)
RECURSIVE TypeListsOfSize(_)
TypesOfSize(n) ==
    (IF n = 1 THEN TypeTokens ELSE {})
      \cup { tok \o "[" \o l \o "]" : tok \in TypeTokens, l \in TypeListsOfSize(n - 1) }
TypeListsOfSize(m) ==
    IF m = 0 THEN {""}
    ELSE TypesOfSize(m)
           \cup UNION { { t \o ", " \o l : t \in TypesOfSize(k), l \in TypeListsOfSize(m - k) } :
                        k \in 1..(m - 1) }

BoundedTypes == UNION { TypesOfSize(n) : n \in 1..MaxTypeTokens }

\* What may follow a type in a signature.
TypeRemainders == {"", ")", ", b)", "=1)", "\n\nDoc", " junk"}

WellFormedTypeTexts == { t \o r : t \in BoundedTypes, r \in TypeRemainders }
TypeTexts == UNION { Prefixes(s) : s \in WellFormedTypeTexts }

\* Signatures: f '(' arguments ')' return-type trailer.
ArgForms == {"a", "a: int", "b: L[m.T]", "c=1", "*args"}
ArgSeparators == {", ", ",", " "}
ReturnForms == {"", " -> int", " -> L[m.T]"}
Trailers == {"", "\n", "\n\nS<m", "\n\nSum\n\nmore\n", " junk"}

SignatureTexts ==
    { "f(" \o Join(args, sep) \o ")" \o r \o t :
        args \in SeqsUpTo(ArgForms, MaxArgs), sep \in ArgSeparators,
        r \in ReturnForms, t \in Trailers }

\* Texts that stop being a signature right after an argument: the text ends
\* there, or goes on with something that is neither ")" nor ", ".  After a
\* default value only "," can follow, since a default runs up to the next
\* "," or ")".
HasDefault(arg) == Find(arg, "=") # -1
BadContinuations == {",b)", " b)", ",b)\n\nS<m\n\nmore\n", " b)\n\nSum", ";\nx\n\ny"}

BrokenAfterArgument ==
    UNION { { "f(" \o Join(args, ", ") \o more :
                more \in { m \in BadContinuations \cup {""} :
                             m = "" \/ Ch(m, 1) = "," \/ ~HasDefault(args[Len(args)]) } } :
            args \in (SeqsUpTo(ArgForms, MaxArgs) \ {<<>>}) }

SignatureInputs ==
    UNION { Prefixes(s) : s \in SignatureTexts } \cup BrokenAfterArgument

\* Docstrings: the overload header and numbered blocks, or one signature.
BlockSignatures == {"f(a: int) -> int", "f(a: str) -> str", "f()", "f(a: m.T, b=1)"}
BlockTrailers == {"\n\n", "", "\n", "\n\nDoc.\n\n"}
Blocks == { b \o t : b \in BlockSignatures, t \in BlockTrailers }

RECURSIVE NumberedBlocks(_, _, _)
NumberedBlocks(name, blocks, i) ==
    IF i > Len(blocks) THEN ""
    ELSE Str(i) \o ". " \o blocks[i] \o NumberedBlocks(name, blocks, i + 1)

OverloadDoc(name, blocks) == OverloadHeader(name) \o NumberedBlocks(name, blocks, 1)

NoBlocks == <<>>

TypeCalls ==
    { [fn |-> "parse_pybind_type", text |-> t, blocks |-> NoBlocks] : t \in TypeTexts }
\* The signature text a (name, summary, args, type) tuple stands for, as
\* far as its name and argument names go.
Reserialize(tuple) ==
    tuple[1] \o "(" \o Join([ i \in 1..Len(tuple[3]) |-> tuple[3][i][1] ], ", ") \o ")"

\* The degenerate tuples of the texts that do not parse, written back as
\* signature texts.
ReserializedInputs ==
    { Reserialize(DegenerateTuple("f", t)) : t \in {"f(a b)", "f(a b)\n\nSum"} }

SignatureCalls ==
    { [fn |-> "parse_pybind_signature", text |-> t, blocks |-> NoBlocks] :
        t \in SignatureInputs \cup ReserializedInputs }
\* blocks records how the text was put together; the parser sees text only.
DocstringCalls ==
    { [fn |-> "parse_pybind_docstring", text |-> OverloadDoc("f", bs), blocks |-> bs] :
        bs \in (SeqsUpTo(Blocks, MaxOverloads) \ {<<>>}) }
      \cup { [fn |-> "parse_pybind_docstring", text |-> b, blocks |-> NoBlocks] : b \in Blocks }

InitParse ==
    /\ module_mapping \in ParseTables
    /\ call \in TypeCalls \cup SignatureCalls \cup DocstringCalls
    /\ ret = NoRet
    /\ stack = <<>>
    /\ pages = <<>>
    /\ NoRun

CallParsePybindType ==
    /\ call.fn = "parse_pybind_type"
    /\ ret.exc = "pending"
    /\ ret' = parse_pybind_type(module_mapping, call.text)
    /\ UNCHANGED <<module_mapping, call, stack, pages>>
    /\ UNCHANGED run_vars

CallParsePybindSignature ==
    /\ call.fn = "parse_pybind_signature"
    /\ ret.exc = "pending"
    /\ ret' = parse_pybind_signature(module_mapping, call.text)
    /\ UNCHANGED <<module_mapping, call, stack, pages>>
    /\ UNCHANGED run_vars

CallParsePybindDocstring ==
    /\ call.fn = "parse_pybind_docstring"
    /\ ret.exc = "pending"
    /\ ret' = parse_pybind_docstring(module_mapping, "f", call.text)
    /\ UNCHANGED <<module_mapping, call, stack, pages>>
    /\ UNCHANGED run_vars

NextParse ==
    \/ CallParsePybindType
    \/ CallParsePybindSignature
    \/ CallParsePybindDocstring

SpecParse == InitParse /\ [][NextParse]_vars

---------------------------------------------------------------------------
(* Specification SpecFunction: extract_function_doc applied to bounded     *)
(* sets of functions, with a pybind11 docstring and without.               *)

\* The arguments of a generated docstring signature.
ParamForms ==
    {"self", "self: m.T", "arg0", "arg0: int", "arg1: int", "arg1=1", "a: int",
     "*args", "**kwargs"}
FunctionReturns == {"", " -> None"}

\* A function with nothing but a docstring: inspect.signature raises
\* ValueError for it.
Documented(doc) == [doc |-> doc, signature |-> None, flavor |-> ""]

\* A function whose docstring is one signature of the given arguments.
GrammarFunction(forms, return) ==
    Documented(Some("f(" \o Join(forms, ", ") \o ")" \o return))

Parameter(name, annotation, default) ==
    [name |-> name, annotation |-> annotation, default |-> default,
     kind |-> "POSITIONAL_OR_KEYWORD"]

\* Functions off the single-signature grammar: two overloads, a text that
\* does not parse, no docstring, and Python functions with a signature.
OtherFunctions ==
    { Documented(Some(OverloadDoc("f", <<"f(arg0: int) -> int\n\n", "f(self: m.T, a: int=1)\n">>))),
      Documented(Some("f(arg0 x)")),
      Documented(None),
      [doc |-> Some("Docs.\n\nMore."),
       signature |-> Some([parameters |-> << Parameter("self", None, None),
                                            Parameter("x", Some("m.T"), Some("1")) >>,
                           return_annotation |-> Some("int")]),
       flavor |-> "classmethod"],
      [doc |-> None,
       signature |-> Some([parameters |-> << Parameter("x", None, None) >>,
                           return_annotation |-> None]),
       flavor |-> "staticmethod"] }

FunctionCall(pybind, parent, function, forms) ==
    [fn |-> "extract_function_doc", pybind |-> pybind, parent |-> parent, name |-> "f",
     function |-> function, args |-> forms]

\* args records how the docstring was put together (None when it is not a
\* single generated signature); the extractor sees the function only.
InitFunction ==
    /\ module_mapping \in ParseTables
    /\ \E pybind \in BOOLEAN : \E parent \in {"module", "class"} :
         \/ \E forms \in SeqsUpTo(ParamForms, MaxParams) : \E r \in FunctionReturns :
               call = FunctionCall(pybind, parent, GrammarFunction(forms, r), Some(forms))
         \/ \E function \in OtherFunctions :
               call = FunctionCall(pybind, parent, function, None)
    /\ ret = NoRet
    /\ stack = <<>>
    /\ pages = <<>>
    /\ NoRun

CallExtractFunctionDoc ==
    /\ call.fn = "extract_function_doc"
    /\ ret.exc = "pending"
    /\ ret' = extract_function_doc(module_mapping, call.pybind, call.parent, call.name,
                                   call.function)
    /\ UNCHANGED <<module_mapping, call, stack, pages>>
    /\ UNCHANGED run_vars

NextFunction == CallExtractFunctionDoc

SpecFunction == InitFunction /\ [][NextFunction]_vars

---------------------------------------------------------------------------
(* C5, C6: overloaded docstrings. *)

\* What a block gives when it is parsed on its own, as a whole.
ParseOfBlock(mapping, block) == parse_pybind_signature(mapping, block)

IsOverloadCall ==
    /\ call.fn = "parse_pybind_docstring"
    /\ ret.exc # "pending"
    /\ call.blocks # NoBlocks

\* C5: for the overload header followed by k >= 1 blocks numbered 1..k,
\* parse_pybind_docstring returns exactly k tuples, the i-th being the parse
\* of block i, each named f, in ascending block order.
C5_OverloadTuples ==
    IsOverloadCall =>
        /\ ret.exc = ""
        /\ Len(ret.val) = Len(call.blocks)
        /\ \A i \in 1..Len(call.blocks) :
             /\ ret.val[i] = ParseOfBlock(module_mapping, call.blocks[i]).val
             /\ ret.val[i][1] = "f"

\* C6: the last block extends to the end of the input, no character of it is
\* dropped: the last tuple returned is the parse of the whole last block, so
\* that a last block "f(a: str) -> str" ending the input has return type str.
C6_LastBlockToEnd ==
    IsOverloadCall =>
        /\ ret.exc = ""
        /\ ret.val[Len(ret.val)]
             = ParseOfBlock(module_mapping, call.blocks[Len(call.blocks)]).val
        /\ (call.blocks[Len(call.blocks)] = "f(a: str) -> str"
              => ret.val[Len(ret.val)][4] = Some("str"))

---------------------------------------------------------------------------
(* C7: the parse failure policy. *)

\* The first paragraph of lines, from its first non-blank line up to the
\* next blank one.
RECURSIVE ParagraphLines(_)
ParagraphLines(lines) ==
    IF Len(lines) = 0 \/ lines[1] = "" THEN <<>>
    ELSE <<lines[1]>> \o ParagraphLines(Tail(lines))

\* The summary the failure policy asks for: the text after the blank line
\* that follows the first line, empty if the second line is not blank.
SummaryAfterFirstLine(lines) ==
    IF Len(lines) >= 2 /\ lines[2] = ""
    THEN html_escape(Join(ParagraphLines(DropLeadingBlank(SubSeq(lines, 2, Len(lines)))), "\n"))
    ELSE ""

\* C7: whenever the text left after an argument begins with neither ")" nor
\* ", " (the exhausted text included), parse_pybind_signature returns
\* (name, summary, [(ellipsis, None, None)], None) and does not raise.
C7_DegenerateAfterArgument ==
    (/\ call.fn = "parse_pybind_signature"
     /\ ret.exc # "pending"
     /\ call.text \in BrokenAfterArgument) =>
        ret = Ok(<<"f", SummaryAfterFirstLine(SplitLines(call.text)),
                   << <<Ellipsis, None, None>> >>, None>>)

---------------------------------------------------------------------------
(* C8: parse_pybind_type on well-formed type strings. *)

\* s with every maximal run of type-token characters replaced by its Name
\* Mapper image, everything else kept.
RECURSIVE MapTokensIn(_, _)
MapTokensAt(mapping, s, token) ==
    IF token = "" THEN Ch(s, 1) \o MapTokensIn(mapping, Drop(s, 1))
    ELSE map_name_prefix(mapping, token) \o MapTokensIn(mapping, Drop(s, Len(token)))
MapTokensIn(mapping, s) ==
    IF s = "" THEN "" ELSE MapTokensAt(mapping, s, RxMatch(_pybind_type_rx, s))

\* The brackets of s, in order.
RECURSIVE BracketsOf(_)
BracketsOf(s) ==
    IF s = "" THEN ""
    ELSE (IF Ch(s, 1) \in {"[", "]"} THEN Ch(s, 1) ELSE "") \o BracketsOf(Drop(s, 1))

\* C8: for a type string t of the grammar followed by a remainder r,
\* parse_pybind_type returns r and t with every type token replaced by its
\* Name Mapper image: the same brackets, and t itself under an empty table.
C8_TypeRebuilt ==
    (call.fn = "parse_pybind_type" /\ ret.exc # "pending") =>
        \A t \in BoundedTypes : \A r \in TypeRemainders :
            call.text = t \o r =>
                /\ ret.exc = ""
                /\ ret.sig = r
                /\ ret.type = MapTokensIn(module_mapping, t)
                /\ BracketsOf(ret.type) = BracketsOf(t)
                /\ (module_mapping = <<>> => ret.type = t)

\* A nested generic with a mapped token at both levels and two parameters,
\* parsed up to the text that follows it.
C8_Witness ==
    /\ call.fn = "parse_pybind_type"
    /\ call.text = "m.T[int, m.T], b)"
    /\ module_mapping = << <<"m", "lib">> >>
    /\ ret.exc = ""
    /\ ret.type = "lib.T[int, lib.T]"
    /\ ret.sig = ", b)"

---------------------------------------------------------------------------
(* The object graph the walker inspects.                                   *)

\* A Python object, by the attributes the walker reads: __name__,
\* __module__ (None: no such attribute), __package__ and __doc__; flavor is
\* what binds a routine to its class.
Object(kind, name, module, package, doc, flavor) ==
    [kind |-> kind, name |-> name, module |-> module, package |-> package,
     doc |-> doc, flavor |-> flavor]

Heap ==
       ("lib"         :> Object("module", "lib", None, Some("lib"), "Library.", ""))
    @@ ("lib._n"      :> Object("module", "lib._n", None, Some("lib"),
                                "Native <n>.\n\n    Details.", ""))
    @@ ("lib.nat"     :> Object("module", "lib.nat", None, None, "Bound.", ""))
    @@ ("lib.nat.sub" :> Object("module", "lib.nat.sub", None, None, "", ""))
    @@ ("lib.a"       :> Object("module", "lib.a", None, Some("lib"), "Imports b.", ""))
    @@ ("lib.b"       :> Object("module", "lib.b", None, Some("lib"), "Imports a.", ""))
    @@ ("aux"         :> Object("module", "aux", None, Some(""), "Auxiliary.", ""))
    @@ ("lib.sp"      :> Object("module", "lib.sp", None, Some("lib.sp"), "A package.", ""))
    @@ ("Pub"         :> Object("class", "Pub", Some("lib._n"), None, "A class.", ""))
    @@ ("In"          :> Object("class", "In", Some("lib._n"), None,
                                "Inner & more.\n\nDetails.", ""))
    @@ ("type"        :> Object("class", "type", Some("builtins"), None, "type(object)", ""))
    @@ ("E"           :> Object("enum", "E", Some("lib"), None, "An enum.", ""))
    @@ ("PE"          :> Object("pybind_enum", "PE", Some("lib._n"), None, "Bound enum.", ""))
    @@ ("f"           :> Object("function", "f", Some("lib"), None, "A function.", ""))
    @@ ("__eq__"      :> Object("routine", "__eq__", None, None, "Return self==value.", ""))
    @@ ("__init__"    :> Object("function", "__init__", Some("lib._n"), None, "Make one.", ""))
    @@ ("_h"          :> Object("function", "_h", Some("lib._n"), None, "", ""))
    @@ ("m"           :> Object("function", "m", Some("lib._n"), None, "A method.", ""))
    @@ ("cm"          :> Object("function", "cm", Some("lib._n"), None, "", "classmethod"))
    @@ ("sm"          :> Object("function", "sm", Some("lib._n"), None, "", "staticmethod"))
    @@ ("p"           :> Object("property", "", None, None, "A property.", ""))
    @@ ("__weakref__" :> Object("property", "__weakref__", None, None,
                                "list of weak references to the object (if defined)", ""))
    @@ ("In.__eq__"   :> Object("function", "__eq__", Some("lib._n"), None, "", ""))
    @@ ("In.__weakref__" :> Object("property", "__weakref__", None, None,
                                   "Weak references.", ""))
    @@ ("bm"          :> Object("routine", "bm", Some("lib"), None, "A bound method.", ""))
    @@ ("v"           :> Object("data", "", None, None, "", ""))
    @@ ("co"          :> Object("code", "", None, None, "", ""))

\* The attributes the root module may have, as <<name, object>>, in the
\* order inspect.getmembers lists them (sorted by name).
RootCandidates ==
    << <<"E", "E">>, <<"Pub", "Pub">>, <<"Q", "Pub">>, <<"__doc__", "v">>,
       <<"_n", "lib._n">>, <<"a", "lib.a">>, <<"bm", "bm">>, <<"co", "co">>,
       <<"f", "f">>, <<"n", "lib._n">>, <<"nat", "lib.nat">> >>

\* The attributes of the other containers, sorted by name.
FixedMembers(object) ==
    CASE object = "lib._n"  -> << <<"Pub", "Pub">>, <<"_p", "v">> >>
      [] object = "lib.nat" -> << <<"sub", "lib.nat.sub">> >>
      [] object = "lib.a"   -> << <<"b", "lib.b">>, <<"d", "v">>, <<"sp", "lib.sp">> >>
      [] object = "lib.b"   -> << <<"a", "lib.a">> >>
      [] object = "In" ->
           << <<"__c__", "cm">>, <<"__eq__", "In.__eq__">>, <<"__r", "_h">>,
              <<"__weakref__", "In.__weakref__">> >>
      [] object = "Pub" ->
           << <<"In", "In">>, <<"PE", "PE">>, <<"_E", "E">>, <<"__class__", "type">>,
              <<"__doc__", "v">>, <<"__eq__", "__eq__">>, <<"__init__", "__init__">>,
              <<"__weakref__", "__weakref__">>, <<"_h", "_h">>, <<"cm", "cm">>,
              <<"m", "m">>, <<"p", "p">>, <<"sm", "sm">>, <<"x", "v">> >>
      [] OTHER -> <<>>

\* dir(object) with getattr: the <<name, value>> pairs of a container.
Members(object) == IF object = "lib" THEN call.members ELSE FixedMembers(object)

\* module.__all__, None when the module has no such attribute (line 664).
ExportList(object) ==
    IF object = "lib" THEN call.all
    ELSE IF object = "lib._n" THEN call.sub_all
    ELSE None

\* getattr(module, name) (lines 680, 696).
GetAttr(object, name) ==
    LET hit == SelectSeq(Members(object), LAMBDA b : b[1] = name) IN hit[1][2]

\* The <<name, value>> pairs a loop over module.__all__ goes through.
Exported(object) ==
    [ i \in 1..Len(ExportList(object)[1]) |->
        <<ExportList(object)[1][i], GetAttr(object, ExportList(object)[1][i])>> ]

\* The predicates of module inspect, and is_enum (line 188).
ismodule(o) == Heap[o].kind = "module"
isclass(o) == Heap[o].kind \in {"class", "enum", "pybind_enum"}
isroutine(o) == Heap[o].kind \in {"function", "routine"}
isfunction_or_builtin(o) == Heap[o].kind = "function"
isdatadescriptor(o) == Heap[o].kind = "property"
is_enum(o) ==
    Heap[o].kind = "enum" \/ (call.pybind /\ Heap[o].kind = "pybind_enum")
is_data(o) == Heap[o].kind = "data"

---------------------------------------------------------------------------
(* Visibility Filter.                                                      *)

EndsWith(s, p) == Len(p) <= Len(s) /\ Drop(s, Len(s) - Len(p)) = p

\* A privacy rule that knows no special-form names.
is_internal_function_name_NoDunder(name) == StartsWith(name, "_")

is_internal_function_name(name) ==
    StartsWith(name, "_") /\ ~(StartsWith(name, "__") /\ EndsWith(name, "__"))

\* A name test that lets every name through.
is_underscored_Never(name) == FALSE

\* name.startswith('_') (lines 149, 883, 893, 927, 937).
is_underscored(name) == StartsWith(name, "_")

\* An ownership rule that compares __module__ as it is.
is_internal_or_imported_module_member_Raw(mapping, parent, path, name, object) ==
    IF is_underscored(name) THEN TRUE
    ELSE IF ~ismodule(object)
         THEN /\ Heap[object].module # None
              /\ Heap[object].module[1] # Join(path, ".")
    ELSE IF call.pybind /\ Heap[object].package = None THEN FALSE
    ELSE IF Heap[parent].package \in {None, Some("")} THEN TRUE
    ELSE Heap[object].package \notin
             { Heap[parent].package, Some(Heap[parent].package[1] \o "." \o name) }

\* A package rule that compares the two __package__ whatever the parent's is.
is_internal_or_imported_module_member_AnyParent(mapping, parent, path, name, object) ==
    IF is_underscored(name) THEN TRUE
    ELSE IF ~ismodule(object)
         THEN /\ Heap[object].module # None
              /\ map_name_prefix(mapping, Heap[object].module[1]) # Join(path, ".")
    ELSE IF call.pybind /\ Heap[object].package = None THEN FALSE
    ELSE Heap[object].package \notin
             { Heap[parent].package,
               IF Heap[parent].package = None THEN Some("." \o name)
               ELSE Some(Heap[parent].package[1] \o "." \o name) }

is_internal_or_imported_module_member(mapping, parent, path, name, object) ==
    IF is_underscored(name) THEN TRUE
    ELSE IF ~ismodule(object)
         THEN /\ Heap[object].module # None
              /\ map_name_prefix(mapping, Heap[object].module[1]) # Join(path, ".")
    ELSE IF call.pybind /\ Heap[object].package = None THEN FALSE
    ELSE IF Heap[parent].package \in {None, Some("")} THEN TRUE
    ELSE Heap[object].package \notin
             { Heap[parent].package, Some(Heap[parent].package[1] \o "." \o name) }

\* Some of the (name, docstring) pairs of lines 786-834.
_filtered_builtin_functions ==
    { <<"__eq__", "Return self==value.">>,
      <<"__init__", "Initialize self.  See help(type(self)) for accurate signature.">> }
_filtered_builtin_properties ==
    { <<"__weakref__", "list of weak references to the object (if defined)">> }

---------------------------------------------------------------------------
(* Export mapping pass (lines 677-692).                                    *)

\* The rewrite an exported name gives rise to, None when there is none.
derive_mapping(path, name, object) ==
    IF ismodule(object) /\ Heap[object].name # Join(Append(path, name), ".")
    THEN Some(<<Heap[object].name, Join(Append(path, name), ".")>>)
    ELSE IF /\ Heap[object].module # None
            /\ Heap[object].module[1] \o "." \o Heap[object].name
                 # Join(Append(path, name), ".")
    THEN Some(<<Heap[object].module[1] \o "." \o Heap[object].name,
                Join(Append(path, name), ".")>>)
    ELSE None

Keys(mapping) == { mapping[i][1] : i \in 1..Len(mapping) }

\* A pass that registers nothing.
register_mapping_Skip(mapping, entry) == Ok(mapping)

\* A plain dict assignment, no test of the key before it.
register_mapping_Unchecked(mapping, entry) ==
    IF entry = None THEN Ok(mapping)
    ELSE IF entry[1][1] \in Keys(mapping)
    THEN Ok([ i \in 1..Len(mapping) |->
                IF mapping[i][1] = entry[1][1] THEN entry[1] ELSE mapping[i] ])
    ELSE Ok(Append(mapping, entry[1]))

\* Lines 686-687 and 691-692: assert the key is new, then insert it.
register_mapping(mapping, entry) ==
    IF entry = None THEN Ok(mapping)
    ELSE IF entry[1][1] \in Keys(mapping) THEN Raise("AssertionError")
    ELSE Ok(Append(mapping, entry[1]))

---------------------------------------------------------------------------
(* Activations of render_module and render_class.                          *)

\* The member lists of a page (lines 635-639 and 853-860), as names.
EmptyPage ==
    [modules |-> <<>>, classes |-> <<>>, enums |-> <<>>, functions |-> <<>>,
     data |-> <<>>, classmethods |-> <<>>, staticmethods |-> <<>>,
     dunder_methods |-> <<>>, methods |-> <<>>, properties |-> <<>>]

\* pc names the loop the activation is in and i the iteration it is at;
\* to_render is modules_to_render followed by classes_to_render, children
\* is index_entry.children.
\* url and summary are page.url and page.summary, which the index entry
\* takes over (lines 624-632, 648-653, 842-850, 869-874); entries holds what
\* extract_module_doc and extract_class_doc gave for page.modules and
\* page.classes.
Frame(fn, path, object, pc) ==
    [fn |-> fn, path |-> path, object |-> object, pc |-> pc, i |-> 1,
     page |-> EmptyPage, to_render |-> <<>>, children |-> <<>>,
     url |-> make_url(path),
     summary |-> extract_summary(IF fn = "render_module" THEN state.module_docs
                                 ELSE state.class_docs,
                                 path, Heap[object].doc),
     entries |-> <<>>]

\* What the loop at frame.pc goes through: the export list, the members
\* inspect.getmembers gives for the loop's predicate, or the queued children.
Items(frame) ==
    CASE frame.pc \in {"map", "extract"} -> Exported(frame.object)
      [] frame.pc = "modules"    ->
           SelectSeq(Members(frame.object), LAMBDA b : ismodule(b[2]))
      [] frame.pc = "classes"    ->
           SelectSeq(Members(frame.object), LAMBDA b : isclass(b[2]) /\ ~is_enum(b[2]))
      [] frame.pc = "enums"      ->
           SelectSeq(Members(frame.object), LAMBDA b : is_enum(b[2]))
      [] frame.pc = "functions"  ->
           SelectSeq(Members(frame.object), LAMBDA b : isfunction_or_builtin(b[2]))
      [] frame.pc = "methods"    ->
           SelectSeq(Members(frame.object), LAMBDA b : isroutine(b[2]))
      [] frame.pc = "properties" ->
           SelectSeq(Members(frame.object), LAMBDA b : isdatadescriptor(b[2]))
      [] frame.pc = "data"       ->
           SelectSeq(Members(frame.object),
               LAMBDA b : /\ is_data(b[2])
                          /\ (frame.fn = "render_class" => ~isdatadescriptor(b[2])))
      [] frame.pc = "children"   -> frame.to_render
      [] OTHER -> <<>>

\* The statement that follows the loop at pc.
NextPc(fn, pc) ==
    CASE pc = "map"        -> "extract"
      [] pc = "extract"    -> "render"
      [] pc = "modules"    -> "classes"
      [] pc = "classes"    -> "enums"
      [] pc = "enums"      -> IF fn = "render_module" THEN "functions" ELSE "methods"
      [] pc = "functions"  -> "data"
      [] pc = "methods"    -> "properties"
      [] pc = "properties" -> "data"
      [] pc = "data"       -> "render"
      [] pc = "children"   -> "done"

\* Loops that have nothing left are passed over.
RECURSIVE Settle(_)
Settle(frame) ==
    IF frame.pc \notin {"render", "done"} /\ frame.i > Len(Items(frame))
    THEN Settle([frame EXCEPT !.pc = NextPc(frame.fn, frame.pc), !.i = 1])
    ELSE frame

\* A walk that goes straight to extraction.
InitialPc_NoMapPass(fn, object) ==
    IF fn = "render_class" THEN "classes"
    ELSE IF ExportList(object) # None THEN "extract" ELSE "modules"

\* Line 664 (render_module) and line 881 (render_class).
InitialPc(fn, object) ==
    IF fn = "render_class" THEN "classes"
    ELSE IF ExportList(object) # None THEN "map" ELSE "modules"

Enter(fn, path, object) == Settle(Frame(fn, path, object, InitialPc(fn, object)))
Advance(frame) == Settle([frame EXCEPT !.i = @ + 1])

Top == stack[Len(stack)]
Current == Items(Top)[Top.i]
ReplaceTop(frame) == [stack EXCEPT ![Len(stack)] = frame]

\* Lines 362-378: extract_module_doc and extract_class_doc, both of which
\* look the summary up in state.class_docs.
extract_module_doc(path, module) ==
    [url |-> make_url(path), name |-> path[Len(path)],
     summary |-> extract_summary(state.class_docs, path, Heap[module].doc)]

extract_class_doc(path, class_) ==
    [url |-> make_url(path), name |-> path[Len(path)],
     summary |-> extract_summary(state.class_docs, path, Heap[class_].doc)]

\* page.<list> += [extract_..._doc(state, path + [name], object)]: the page
\* lists hold the names, entries what was extracted for a module or class.
Listed(frame, list, name, object) ==
    [frame EXCEPT
       !.page[list] = Append(@, name),
       !.entries = IF list = "modules"
                   THEN Append(@, extract_module_doc(Append(frame.path, name), object))
                   ELSE IF list = "classes"
                   THEN Append(@, extract_class_doc(Append(frame.path, name), object))
                   ELSE @]
ChildFn(list) == IF list = "modules" THEN "render_module" ELSE "render_class"

\* A member kept in inspection mode or on a class page: listed, and queued
\* for its own page when it is a module or a class.
Kept(frame, list, name, object) ==
    IF list \in {"modules", "classes"}
    THEN [Listed(frame, list, name, object) EXCEPT
            !.to_render = Append(@, <<Append(frame.path, name), object, ChildFn(list)>>)]
    ELSE Listed(frame, list, name, object)

\* Lines 702-721: the list an exported object goes to, "" for none.
export_member_list(object) ==
    IF ismodule(object) THEN "modules"
    ELSE IF isclass(object) /\ ~is_enum(object) THEN "classes"
    ELSE IF isclass(object) /\ is_enum(object) THEN "enums"
    ELSE IF isfunction_or_builtin(object) THEN "functions"
    ELSE IF Heap[object].kind # "code" THEN "data"
    ELSE ""

\* A bucket choice that looks at the binding flavour before the name.
method_list_FlagsFirst(name, object) ==
    IF Heap[object].flavor = "classmethod" THEN "classmethods"
    ELSE IF Heap[object].flavor = "staticmethod" THEN "staticmethods"
    ELSE IF StartsWith(name, "__") THEN "dunder_methods"
    ELSE "methods"

\* Lines 914-921.
method_list(name, object) ==
    IF StartsWith(name, "__") THEN "dunder_methods"
    ELSE IF Heap[object].flavor = "classmethod" THEN "classmethods"
    ELSE IF Heap[object].flavor = "staticmethod" THEN "staticmethods"
    ELSE "methods"

\* A class page that filters the methods of the table by name alone.
class_member_list_ByName(pc, name, object) ==
    CASE pc = "classes" ->
           IF name \in {"__base__", "__class__"} \/ is_underscored(name) THEN ""
           ELSE "classes"
      [] pc = "enums" -> IF is_underscored(name) THEN "" ELSE "enums"
      [] pc = "methods" ->
           IF is_internal_function_name(name) THEN ""
           ELSE IF name \in { t[1] : t \in _filtered_builtin_functions } THEN ""
           ELSE method_list(name, object)
      [] pc = "properties" ->
           IF <<name, Heap[object].doc>> \in _filtered_builtin_properties THEN ""
           ELSE IF is_underscored(name) THEN ""
           ELSE "properties"
      [] pc = "data" -> IF is_underscored(name) THEN "" ELSE "data"

\* Lines 881-940: the list a class member goes to in the loop at pc, "" when
\* the loop skips it.
class_member_list(pc, name, object) ==
    CASE pc = "classes" ->
           IF name \in {"__base__", "__class__"} \/ is_underscored(name) THEN ""
           ELSE "classes"
      [] pc = "enums" -> IF is_underscored(name) THEN "" ELSE "enums"
      [] pc = "methods" ->
           IF is_internal_function_name(name) THEN ""
           ELSE IF /\ StartsWith(name, "__")
                   /\ <<name, Heap[object].doc>> \in _filtered_builtin_functions
           THEN ""
           ELSE method_list(name, object)
      [] pc = "properties" ->
           IF <<name, Heap[object].doc>> \in _filtered_builtin_properties THEN ""
           ELSE IF is_underscored(name) THEN ""
           ELSE "properties"
      [] pc = "data" -> IF is_underscored(name) THEN "" ELSE "data"

---------------------------------------------------------------------------
(* What run() is given and what it keeps beside the pages.                 *)

Range(seq) == { seq[i] : i \in 1..Len(seq) }
Last(seq) == seq[Len(seq)]

\* The pre-page hooks the plugins registered (lines 1088-1097), in
\* registration order; config['INPUT_PAGES'] without the extension, and
\* the titles of these documents (line 1029).
hooks_pre_page == <<"h1", "h2">>
INPUT_MODULES == <<"lib", "aux">>
INPUT_PAGES == <<"index", "about">>
page_titles == [index |-> "Home", about |-> "About"]

\* A hook list that is called last to first.
call_hooks_Reversed(called) ==
    called \o [ i \in 1..Len(hooks_pre_page) |->
                  hooks_pre_page[Len(hooks_pre_page) + 1 - i] ]

\* for hook in state.hooks_pre_page: hook() (lines 622, 840, 1001, 1100).
call_hooks(called) == called \o hooks_pre_page

\* An external docs dict: a sequence of entries in insertion order, each
\* <<key, summary>> given; used says whether the entry has the key 'used'.
Docs(entries) ==
    [ i \in 1..Len(entries) |->
        [key |-> entries[i][1], summary |-> entries[i][2], used |-> FALSE] ]

\* The entries the directives of the INPUT_DOCS files leave (line 1105).
SuppliedDocs ==
    [NewState EXCEPT
        !.module_docs = Docs(<< <<"lib", "The <lib> package.">>,
                                <<"lib.n", "Module n.">>,
                                <<"lib.nat", "">>,
                                <<"lib.zz", "Nowhere.">> >>),
        !.class_docs = Docs(<< <<"lib.Pub", "Pub & friends.">>,
                               <<"lib.n", "Not a class.">>,
                               <<"lib.n.Pub.In", "">> >>),
        !.data_docs = Docs(<< <<"lib.__doc__", "The docstring.">>,
                              <<"lib.Pub.x", "An x.">>,
                              <<"lib.y", "A y.">> >>)]

\* A page that leaves its entry as it found it.
mark_used_Never(docs, key) == docs

\* Lines 644-646 and 865-867: docs[path_str]['used'] = True when the key is
\* there.
mark_used(docs, key) ==
    [ i \in 1..Len(docs) |->
        IF docs[i].key = key THEN [docs[i] EXCEPT !.used = TRUE] ELSE docs[i] ]

\* Lines 611-614: del state.data_docs[path_str] when the key is there.
del_key(docs, key) == SelectSeq(docs, LAMBDA d : d.key # key)

\* Lines 1117-1119: [key for key, value in docs.items() if not 'used' in value].
unused(docs) ==
    LET left == SelectSeq(docs, LAMBDA d : ~d.used) IN
    [ i \in 1..Len(left) |-> left[i].key ]

\* What the entry of render_module or render_class does to State (lines
\* 642-646, 863-867).
Entered(st, fn, path) ==
    IF fn = "render_module"
    THEN [st EXCEPT !.module_docs = mark_used(@, Join(path, "."))]
    ELSE [st EXCEPT !.class_docs = mark_used(@, Join(path, "."))]

\* What extracting a member into a list does to State (extract_data_doc,
\* lines 609-614).
Extracted(st, list, path) ==
    IF list = "data" THEN [st EXCEPT !.data_docs = del_key(@, Join(path, "."))]
    ELSE st

\* An index entry that forgets the entries under it.
IndexEntry_Leaf(kind, name, url, summary, children) ==
    [kind |-> kind, name |-> name, url |-> url, summary |-> summary,
     has_nestaable_children |-> FALSE, has_nestable_children |-> None,
     children |-> <<>>]

\* IndexEntry (lines 108-115): the attribute the constructor sets is
\* has_nestaable_children; has_nestable_children is there once line 1137
\* has set it (None before).
IndexEntry(kind, name, url, summary, children) ==
    [kind |-> kind, name |-> name, url |-> url, summary |-> summary,
     has_nestaable_children |-> FALSE, has_nestable_children |-> None,
     children |-> children]

\* A marking that takes any child for a nestable one and stops at the
\* first level.
mark_nested_modules_Shallow(list) ==
    [has_nestable_children |-> \E i \in 1..Len(list) : list[i].kind = "module",
     list |-> [ i \in 1..Len(list) |->
                  IF list[i].kind # "module" THEN list[i]
                  ELSE [list[i] EXCEPT !.has_nestable_children =
                            Some(list[i].children # <<>>)] ]]

\* Lines 1132-1138: the value returned and the list as the call leaves it.
RECURSIVE mark_nested_modules(_)
mark_nested_modules(list) ==
    [has_nestable_children |-> \E i \in 1..Len(list) : list[i].kind = "module",
     list |-> [ i \in 1..Len(list) |->
                  IF list[i].kind # "module" THEN list[i]
                  ELSE [list[i] EXCEPT
                          !.has_nestable_children =
                              Some(mark_nested_modules(list[i].children).has_nestable_children),
                          !.children = mark_nested_modules(list[i].children).list] ]]

\* The warnings of lines 740, 750, 761, 886, 896, 911 and 930 for a member
\* kept in the list: none for a member with a docstring.
Undocumented(list, path, object) ==
    IF Heap[object].doc # "" \/ list \in {"modules", "data"} THEN <<>>
    ELSE IF list \in {"functions", "classmethods", "staticmethods",
                      "dunder_methods", "methods"}
    THEN << <<"%s() is undocumented", Join(path, ".")>> >>
    ELSE << <<"%s is undocumented", Join(path, ".")>> >>

---------------------------------------------------------------------------
(* Specification Spec: run() walks the root module lib of every bounded    *)
(* object graph.                                                           *)

\* The attribute lists of the root module: sublists of RootCandidates.
MemberLists ==
    { SelectSeq(RootCandidates, LAMBDA b : b \in S) :
        S \in { T \in SUBSET Range(RootCandidates) : Cardinality(T) <= MaxMembers } }

\* What __all__ of a module with these attributes may be: absent, or a list
\* of distinct attribute names.
ExportLists(members) ==
    {None} \cup
    { Some(names) :
        names \in { l \in SeqsUpTo({ b[1] : b \in Range(members) }, MaxExports) :
                      \A i, j \in 1..Len(l) : i # j => l[i] # l[j] } }

\* The graph and the configuration of one run: PYBIND11_COMPATIBILITY, the
\* attributes of lib and its __all__, and the __all__ of lib._n.
World(ms, a, sa, c) ==
    [fn |-> "run", members |-> ms, all |-> a, sub_all |-> sa, pybind |-> c]

\* Line 1081: state = State(config), nothing walked yet.
Init ==
    /\ \E ms \in MemberLists : \E a \in ExportLists(ms) :
         \E sa \in {None, Some(<<"Pub">>)} : \E c \in BOOLEAN :
             call = World(ms, a, sa, c)
    /\ ret = NoRet
    /\ module_mapping = <<>>
    /\ pages = <<>>
    /\ stack = <<>>
    /\ state = NewState
    /\ hooks_called = <<>>
    /\ log = <<>>
    /\ run = [pc |-> "hooks", i |-> 1]

\* Lines 1099-1105: the hooks are called for the first time, then the doc
\* input files are processed; they emit no page.
RunHooks ==
    /\ run.pc = "hooks"
    /\ hooks_called' = call_hooks(hooks_called)
    /\ state' = SuppliedDocs
    /\ run' = [pc |-> "modules", i |-> 1]
    /\ UNCHANGED <<module_mapping, call, ret, stack, pages, log>>

\* Lines 1107-1114: render_module(state, [module_name], module, env) is
\* entered (lines 618-659).
RunModule ==
    /\ run.pc = "modules"
    /\ stack' = <<Enter("render_module", <<INPUT_MODULES[run.i]>>, INPUT_MODULES[run.i])>>
    /\ hooks_called' = call_hooks(hooks_called)
    /\ state' = Entered(state, "render_module", <<INPUT_MODULES[run.i]>>)
    /\ run' = [run EXCEPT !.pc = "walk"]
    /\ UNCHANGED <<module_mapping, call, ret, pages, log>>

\* An exception leaves every activation, run() included.
Abort(e) ==
    /\ ret' = Raise(e)
    /\ stack' = <<>>
    /\ run' = [pc |-> "raised", i |-> 0]
    /\ UNCHANGED <<module_mapping, call, pages, state, hooks_called, log>>

\* A call of render_module or render_class from the activation on top, left
\* at caller: the interpreter refuses it at its recursion limit; otherwise
\* the callee runs its hooks and marks its external docs (lines 618-659,
\* 836-878).
CallChild(caller, fn, path, object) ==
    IF Len(stack) >= RecursionLimit THEN Abort("RecursionError")
    ELSE /\ stack' = Append(ReplaceTop(caller), Enter(fn, path, object))
         /\ hooks_called' = call_hooks(hooks_called)
         /\ state' = Entered(state, fn, path)
         /\ UNCHANGED <<module_mapping, call, ret, pages, log, run>>

\* One iteration of the loop of lines 677-692, given what the insertion did.
MapPassOutcome(registered) ==
    IF registered.exc # "" THEN Abort(registered.exc)
    ELSE /\ module_mapping' = registered.val
         /\ stack' = ReplaceTop(Advance(Top))
         /\ UNCHANGED <<call, ret, pages>>
         /\ UNCHANGED run_vars

MapPassStep ==
    /\ stack # <<>>
    /\ Top.pc = "map"
    /\ MapPassOutcome(register_mapping(module_mapping,
                          derive_mapping(Top.path, Current[1], Current[2])))

\* One iteration of the loop of lines 695-721: the member is listed, and a
\* module or class is walked at once (lines 704, 707); extract_data_doc
\* asserts that what it is given is no routine (line 591).
ExtractInto(list, name, object) ==
    IF list = "data" /\ isroutine(object) THEN Abort("AssertionError")
    ELSE IF list \in {"modules", "classes"}
    THEN CallChild(Advance(Listed(Top, list, name, object)),
                   ChildFn(list), Append(Top.path, name), object)
    ELSE /\ stack' = IF list = "" THEN ReplaceTop(Advance(Top))
                     ELSE ReplaceTop(Advance(Listed(Top, list, name, object)))
         /\ state' = Extracted(state, list, Append(Top.path, name))
         /\ log' = IF list # "" THEN log
                   ELSE Append(log, <<"unknown symbol %s in %s", name,
                                      Join(Top.path, ".")>>)
         /\ UNCHANGED <<module_mapping, call, ret, pages, hooks_called, run>>

ExtractStep ==
    /\ stack # <<>>
    /\ Top.pc = "extract"
    /\ ExtractInto(export_member_list(Current[2]), Current[1], Current[2])

\* One iteration of a loop of lines 728-770 or 881-940: the member goes to
\* list, or nowhere when list is "".
LoopInto(list, name, object) ==
    /\ stack' = ReplaceTop(Advance(IF list = "" THEN Top
                                   ELSE Kept(Top, list, name, object)))
    /\ state' = Extracted(state, list, Append(Top.path, name))
    /\ log' = IF list = "" THEN log
              ELSE log \o Undocumented(list, Append(Top.path, name), object)
    /\ UNCHANGED <<module_mapping, call, ret, pages, hooks_called, run>>

\* One iteration of one of the five loops of lines 728-770.
InspectStep ==
    /\ stack # <<>>
    /\ Top.fn = "render_module"
    /\ Top.pc \in {"modules", "classes", "enums", "functions", "data"}
    /\ LoopInto(IF is_internal_or_imported_module_member(module_mapping, Top.object,
                                                        Top.path, Current[1], Current[2])
                THEN "" ELSE Top.pc,
                Current[1], Current[2])

\* One iteration of one of the five loops of lines 881-940.
ClassStep ==
    /\ stack # <<>>
    /\ Top.fn = "render_class"
    /\ Top.pc \in {"classes", "enums", "methods", "properties", "data"}
    /\ LoopInto(class_member_list(Top.pc, Current[1], Current[2]),
                Current[1], Current[2])

\* Lines 773-774 and 943-944: render the page, then del page.
RenderPage ==
    /\ stack # <<>>
    /\ Top.pc = "render"
    /\ pages' = Append(pages, [fn |-> Top.fn, path |-> Top.path,
                               object |-> Top.object, page |-> Top.page,
                               url |-> Top.url, summary |-> Top.summary,
                               entries |-> Top.entries])
    /\ stack' = ReplaceTop(Settle([Top EXCEPT !.pc = "children", !.i = 1,
                                              !.page = EmptyPage, !.entries = <<>>]))
    /\ UNCHANGED <<module_mapping, call, ret>>
    /\ UNCHANGED run_vars

\* One iteration of the loops of lines 777-780 and 947-948.
RenderChild ==
    /\ stack # <<>>
    /\ Top.pc = "children"
    /\ CallChild(Advance(Top), Current[3], Current[1], Current[2])

\* Lines 782 and 950: the index entry goes to the caller's
\* index_entry.children, or to state.class_index (line 1114) when the
\* caller is run().
ReturnEntry(entry) ==
    IF Len(stack) = 1
    THEN /\ stack' = <<>>
         /\ ret' = Ok(<<>>)
         /\ state' = [state EXCEPT !.class_index = Append(@, entry)]
         /\ run' = IF run.i < Len(INPUT_MODULES)
                    THEN [pc |-> "modules", i |-> run.i + 1]
                    ELSE [pc |-> "report", i |-> 1]
         /\ UNCHANGED <<module_mapping, call, pages, hooks_called, log>>
    ELSE /\ stack' = [ k \in 1..(Len(stack) - 1) |->
                         IF k < Len(stack) - 1 THEN stack[k]
                         ELSE [stack[k] EXCEPT !.children = Append(@, entry)] ]
         /\ UNCHANGED <<module_mapping, call, ret, pages>>
         /\ UNCHANGED run_vars

Return ==
    /\ stack # <<>>
    /\ Top.pc = "done"
    /\ ReturnEntry(IndexEntry(IF Top.fn = "render_module" THEN "module" ELSE "class",
                              Last(Top.path), Top.url, Top.summary, Top.children))

\* One warning of lines 1120-1125, none for an empty list.
UnusedWarning(what, keys) ==
    IF keys = <<>> THEN <<>>
    ELSE << <<"The following " \o what \o " doc contents were unused: %s", keys>> >>

\* Lines 1116-1125.
ReportUnused ==
    /\ run.pc = "report"
    /\ log' = log \o UnusedWarning("module", unused(state.module_docs))
                  \o UnusedWarning("class", unused(state.class_docs))
                  \o UnusedWarning("data", unused(state.data_docs))
    /\ run' = [pc |-> "pages", i |-> 1]
    /\ UNCHANGED <<module_mapping, call, ret, stack, pages, state, hooks_called>>

\* One iteration of the loop of lines 1127-1128: render_page (lines
\* 997-1050) returns no index entry for the page index; the entry of another
\* page has its title for a name.
RenderAuthoredPage ==
    /\ run.pc = "pages"
    /\ run.i <= Len(INPUT_PAGES)
    /\ hooks_called' = call_hooks(hooks_called)
    /\ pages' = Append(pages, [fn |-> "render_page", path |-> <<INPUT_PAGES[run.i]>>,
                               object |-> "", page |-> EmptyPage,
                               url |-> make_url(<<INPUT_PAGES[run.i]>>), summary |-> "",
                               entries |-> <<>>])
    /\ state' = IF INPUT_PAGES[run.i] = "index" THEN state
                ELSE [state EXCEPT !.page_index =
                          Append(@, IndexEntry("page", page_titles[INPUT_PAGES[run.i]],
                                               make_url(<<INPUT_PAGES[run.i]>>), "", <<>>))]
    /\ run' = [run EXCEPT !.i = @ + 1]
    /\ UNCHANGED <<module_mapping, call, ret, stack, log>>

\* Lines 1130-1182: the modules of the class index are marked, and the main
\* page is written when the input pages have none.
Finish ==
    /\ run.pc = "pages"
    /\ run.i > Len(INPUT_PAGES)
    /\ state' = [state EXCEPT !.class_index = mark_nested_modules(@).list]
    /\ pages' = IF "index" \in Range(INPUT_PAGES) THEN pages
                ELSE Append(pages, [fn |-> "run", path |-> <<"index">>,
                                    object |-> "", page |-> EmptyPage,
                                    url |-> "index.html", summary |-> "",
                                    entries |-> <<>>])
    /\ run' = [pc |-> "done", i |-> 0]
    /\ UNCHANGED <<module_mapping, call, ret, stack, hooks_called, log>>

Next ==
    \/ RunHooks
    \/ RunModule
    \/ MapPassStep
    \/ ExtractStep
    \/ InspectStep
    \/ ClassStep
    \/ RenderPage
    \/ RenderChild
    \/ Return
    \/ ReportUnused
    \/ RenderAuthoredPage
    \/ Finish

Spec == Init /\ [][Next]_vars

---------------------------------------------------------------------------
(* C2, C3, C4: the export mapping pass. *)

\* The activations of render_module for a module that has __all__.
ExportFrames ==
    { k \in 1..Len(stack) :
        stack[k].fn = "render_module" /\ ExportList(stack[k].object) # None }

\* The <<native name, public name>> pairs the export list of an activation
\* gives rise to.
Rewrites(frame) ==
    { derive_mapping(frame.path, b[1], b[2])[1] :
        b \in { c \in Range(Exported(frame.object)) :
                  derive_mapping(frame.path, c[1], c[2]) # None } }

\* Another key matches name and was registered before key (or key was not
\* registered at all).
ShadowedIn(mapping, key, name) ==
    \E j \in 1..Len(mapping) :
        /\ mapping[j][1] # key
        /\ MatchesAtBoundary(name, mapping[j][1])
        /\ \A i \in 1..(j - 1) : mapping[i][1] # key

Suffixes == {"", ".m", ".Pub", ".Pub.m"}

\* C2 (as stated): after the mapping pass of a module with an export list,
\* map(Q) = P.N and map(Q.x) = P.N.x for every exported object of native
\* name Q # P.N, whatever else is registered.
C2_Original ==
    \A k \in ExportFrames : stack[k].pc # "map" =>
        \A r \in Rewrites(stack[k]) : \A x \in Suffixes :
            map_name_prefix(module_mapping, r[1] \o x) = r[2] \o x

\* C2 (amended): the same, for the names Q and Q.x that no key registered
\* before Q matches at a dotted boundary: the first registered match wins.
C2_ExportRewrites ==
    \A k \in ExportFrames : stack[k].pc # "map" =>
        \A r \in Rewrites(stack[k]) : \A x \in Suffixes :
            ~ShadowedIn(module_mapping, r[1], r[1] \o x) =>
                map_name_prefix(module_mapping, r[1] \o x) = r[2] \o x

\* Two rewrites registered by one pass, the longer key first, and the pass
\* over: a name under both keys goes to the longer one's public name.
C2_Witness ==
    /\ call.all = Some(<<"Pub", "n">>)
    /\ stack # <<>>
    /\ stack[1].pc = "extract"
    /\ module_mapping = << <<"lib._n.Pub", "lib.Pub">>, <<"lib._n", "lib.n">> >>
    /\ map_name_prefix(module_mapping, "lib._n.Pub.m") = "lib.Pub.m"
    /\ map_name_prefix(module_mapping, "lib._n.m") = "lib.n.m"

IsStrictPrefix(s, t) == Len(s) < Len(t) /\ SubSeq(t, 1, Len(s)) = s

\* The activation has listed a member, or a child of it is being walked or
\* has been.
HasExtracted(k) ==
    \/ stack[k].page # EmptyPage
    \/ k < Len(stack)
    \/ \E p \in Range(pages) : IsStrictPrefix(stack[k].path, p.path)

\* C3: in export-list mode every rewrite derived from a module's export
\* list is in the Name Mapper table before the first member of that list is
\* extracted or any child page of that module is walked.
C3_MappingBeforeExtraction ==
    \A k \in ExportFrames : HasExtracted(k) =>
        \A r \in Rewrites(stack[k]) :
            \E j \in 1..Len(module_mapping) : module_mapping[j] = r

\* The first exported member has been listed and its page is being walked,
\* the second is still to be extracted, and both rewrites are registered.
C3_Witness ==
    /\ Len(stack) = 2
    /\ 1 \in ExportFrames
    /\ stack[1].pc = "extract" /\ stack[1].i = 2
    /\ stack[1].page # EmptyPage
    /\ Cardinality(Rewrites(stack[1])) = 2
    /\ Len(module_mapping) = 2

\* The mapping pass is at a name whose rewrite has a key that is registered.
DuplicateDerived ==
    /\ stack # <<>>
    /\ Top.pc = "map"
    /\ derive_mapping(Top.path, Current[1], Current[2]) # None
    /\ derive_mapping(Top.path, Current[1], Current[2])[1][1] \in Keys(module_mapping)

\* C4: no step changes or removes a registered entry, and the step of the
\* mapping pass that derives a registered key ends the run with an
\* AssertionError and leaves the table as it was.
C4_NoOverwrite ==
    [][ /\ \A j \in 1..Len(module_mapping) :
             Len(module_mapping') >= j /\ module_mapping'[j] = module_mapping[j]
        /\ DuplicateDerived =>
             (ret'.exc = "AssertionError" /\ module_mapping' = module_mapping) ]_vars

\* Two exported names bound to one class: the second derived the key of the
\* first; the run is over and the first entry is as it was registered.
C4_Witness ==
    /\ call.all = Some(<<"Pub", "Q">>)
    /\ ret.exc = "AssertionError"
    /\ stack = <<>>
    /\ module_mapping = << <<"lib._n.Pub", "lib.Pub">> >>

---------------------------------------------------------------------------
(* C9, C10: the name rules of the Visibility Filter. *)

ListedNames(page) == UNION { Range(page[l]) : l \in DOMAIN page }

InspectionModule(fn, object) == fn = "render_module" /\ ExportList(object) = None

\* C9: in inspection mode no name that begins with an underscore is in a
\* member list of the module page, queued for a page of its own or walked;
\* in export-list mode every exported name bound to an object of a
\* documented kind is in a member list of the page, underscore or not.
C9_Visibility ==
    /\ \A k \in 1..Len(stack) :
         InspectionModule(stack[k].fn, stack[k].object) =>
            /\ \A n \in ListedNames(stack[k].page) : Ch(n, 1) # "_"
            /\ \A t \in Range(stack[k].to_render) : Ch(Last(t[1]), 1) # "_"
            /\ k < Len(stack) => Ch(Last(stack[k + 1].path), 1) # "_"
    /\ \A p \in Range(pages) :
         /\ InspectionModule(p.fn, p.object) =>
              \A n \in ListedNames(p.page) : Ch(n, 1) # "_"
         /\ (p.fn = "render_module" /\ ExportList(p.object) # None) =>
              \A b \in Range(Exported(p.object)) :
                  Heap[b[2]].kind # "code" => b[1] \in ListedNames(p.page)

\* The root exports _n and lists it; the module behind it has no export
\* list, and its page has the class Pub and not the attribute _p.
C9_Witness ==
    /\ call.all = Some(<<"_n">>)
    /\ call.sub_all = None
    /\ \E p, q \in Range(pages) :
         /\ p.path = <<"lib">>
         /\ p.page.modules = <<"_n">>
         /\ q.path = <<"lib", "_n">>
         /\ q.page.classes = <<"Pub">>
         /\ q.page.data = <<>>

IsDunder(name) == StartsWith(name, "__") /\ EndsWith(name, "__")

\* An ownership or package rule, or a generic-docstring table, excludes the
\* member b of the container of page p.
ExcludedOtherwise(p, b) ==
    IF p.fn = "render_class"
    THEN <<b[1], Heap[b[2]].doc>>
           \in _filtered_builtin_functions \cup _filtered_builtin_properties
    ELSE IF Heap[b[2]].kind = "module" THEN TRUE
    ELSE /\ Heap[b[2]].module # None
         /\ map_name_prefix(module_mapping, Heap[b[2]].module[1]) # Join(p.path, ".")

\* C10 (as stated): on module pages and class pages alike, a member with a
\* special-form name is listed unless an ownership or package rule or the
\* generic-docstring table excludes it.
C10_Original ==
    \A p \in Range(pages) :
        (p.fn = "render_class" \/ InspectionModule(p.fn, p.object)) =>
            \A b \in Range(Members(p.object)) :
                (IsDunder(b[1]) /\ ~ExcludedOtherwise(p, b)) => b[1] \in ListedNames(p.page)

\* C10 (amended): on a class page a routine with a special-form name is in
\* dunder_methods exactly when its (name, docstring) pair is not in the
\* generic-docstring table; every other member with a special-form name, on
\* a class page or on a module page in inspection mode, is left out.
C10_DunderRule ==
    \A p \in Range(pages) :
        /\ p.fn = "render_class" =>
             \A b \in Range(Members(p.object)) : IsDunder(b[1]) =>
                 IF Heap[b[2]].kind \in {"function", "routine"}
                 THEN b[1] \in Range(p.page.dunder_methods)
                        <=> <<b[1], Heap[b[2]].doc>> \notin _filtered_builtin_functions
                 ELSE b[1] \notin ListedNames(p.page)
        /\ InspectionModule(p.fn, p.object) =>
             \A b \in Range(Members(p.object)) :
                 IsDunder(b[1]) => b[1] \notin ListedNames(p.page)

\* The page of class Pub: __init__ with a docstring of its own is listed,
\* __eq__ with the generic one is not, nor are __class__ and __doc__; and
\* the page of a module in inspection mode that has __doc__.
C10_Witness ==
    /\ call.all = None
    /\ <<"__doc__", "v">> \in Range(call.members)
    /\ \E p, q \in Range(pages) :
         /\ p.fn = "render_class" /\ p.object = "Pub"
         /\ p.page.dunder_methods = <<"__init__">>
         /\ p.page.data = <<"x">>
         /\ p.page.classes = <<"In">>
         /\ q.path = <<"lib">>
         /\ q.page.data = <<>>

---------------------------------------------------------------------------
(* C11, C12: the ownership and package rules of the Visibility Filter. *)

\* The innermost activation is a module in inspection mode that has gone
\* through its five loops and has not released its page.
InspectionDone ==
    /\ stack # <<>>
    /\ InspectionModule(Top.fn, Top.object)
    /\ Top.pc = "render"

\* The kinds the loops of lines 736-770 look for.
MemberKinds == {"class", "enum", "pybind_enum", "function", "data"}

\* The Name Mapper image of the object's __module__ is the dotted path.
OwnedBy(object, path) ==
    map_name_prefix(module_mapping, Heap[object].module[1]) = Join(path, ".")

\* C11: in inspection mode a non-module member with a __module__ is on the
\* page of the module at path P only if the Name Mapper image of its
\* __module__ is the dotted P; a member of a documented kind with a public
\* name is on the page exactly when it has no __module__ or is owned so.
C11_Ownership ==
    InspectionDone =>
        \A b \in Range(Members(Top.object)) :
            /\ (~ismodule(b[2]) /\ Heap[b[2]].module # None
                   /\ b[1] \in ListedNames(Top.page)) => OwnedBy(b[2], Top.path)
            /\ (Heap[b[2]].kind \in MemberKinds /\ ~StartsWith(b[1], "_")) =>
                  (b[1] \in ListedNames(Top.page)
                     <=> (Heap[b[2]].module = None \/ OwnedBy(b[2], Top.path)))

\* The module lib._n walked at lib.n under the rewrite lib._n -> lib.n: the
\* class Pub, whose __module__ is lib._n, is on its page.
C11_Witness ==
    /\ InspectionDone
    /\ Top.path = <<"lib", "n">>
    /\ module_mapping = << <<"lib._n", "lib.n">> >>
    /\ Top.page.classes = <<"Pub">>

\* object.__package__ is parent.__package__ or parent.__package__ + '.' +
\* name; a parent without a package identity has no name to prefix.
SamePackageOrChild(parent, name, object) ==
    \/ Heap[object].package = Heap[parent].package
    \/ /\ Heap[parent].package # None
       /\ Heap[object].package = Some(Heap[parent].package[1] \o "." \o name)

\* C12 (as stated): in inspection mode a submodule with a public name is on
\* the page of its parent exactly when its __package__ is None under
\* PYBIND11_COMPATIBILITY, or is the parent's __package__, or is the
\* parent's __package__ + '.' + name, whatever the parent's __package__ is.
C12_Original ==
    InspectionDone =>
        \A b \in Range(Members(Top.object)) :
            (ismodule(b[2]) /\ ~StartsWith(b[1], "_")) =>
                (b[1] \in Range(Top.page.modules)
                   <=> \/ call.pybind /\ Heap[b[2]].package = None
                       \/ SamePackageOrChild(Top.object, b[1], b[2]))

\* C12 (amended): the same, but the two comparisons with the parent's
\* __package__ keep a submodule only when the parent's __package__ is a
\* non-empty string: under a parent whose __package__ is None or '' only
\* the compatibility rule keeps a submodule.
C12_PackageRule ==
    InspectionDone =>
        \A b \in Range(Members(Top.object)) :
            (ismodule(b[2]) /\ ~StartsWith(b[1], "_")) =>
                (b[1] \in Range(Top.page.modules)
                   <=> \/ call.pybind /\ Heap[b[2]].package = None
                       \/ /\ Heap[Top.object].package \notin {None, Some("")}
                          /\ SamePackageOrChild(Top.object, b[1], b[2]))

\* The module lib.a of the package lib, without compatibility mode: its
\* page has b, a module of the same package, and sp, the package lib.sp.
C12_Witness ==
    /\ InspectionDone
    /\ ~call.pybind
    /\ Top.object = "lib.a"
    /\ Heap["lib.b"].package = Heap["lib.a"].package
    /\ Heap["lib.sp"].package = Some("lib.sp")
    /\ Top.page.modules = <<"b", "sp">>

---------------------------------------------------------------------------
(* C13, C14: the methods and properties of a class page. *)

ClassPages == { p \in Range(pages) : p.fn = "render_class" }

TableNames(table) == { t[1] : t \in table }

\* The methods and properties of a class whose name is in the table of
\* their kind.
TableNamed(object) ==
    { b \in Range(Members(object)) :
        \/ isroutine(b[2]) /\ b[1] \in TableNames(_filtered_builtin_functions)
        \/ isdatadescriptor(b[2]) /\ b[1] \in TableNames(_filtered_builtin_properties) }

\* C13 (as stated): a method or property with a name of the table is on
\* the class page exactly when its (name, docstring) pair is not in the
\* table: with any other docstring, or none, it is kept.
C13_Original ==
    \A p \in ClassPages : \A b \in TableNamed(p.object) :
        b[1] \in ListedNames(p.page)
          <=> <<b[1], Heap[b[2]].doc>>
                \notin _filtered_builtin_functions \cup _filtered_builtin_properties

\* C13 (amended): a method with a special-form name is in dunder_methods
\* exactly when its (name, docstring) pair is not in the table, so that one
\* with a name of the table and another docstring, or none, is kept; a
\* property with a name of the table is on no list whatever its docstring.
C13_DunderFiltering ==
    \A p \in ClassPages : \A b \in Range(Members(p.object)) :
        /\ (isroutine(b[2]) /\ IsDunder(b[1])) =>
              (b[1] \in Range(p.page.dunder_methods)
                 <=> <<b[1], Heap[b[2]].doc>> \notin _filtered_builtin_functions)
        /\ (isdatadescriptor(b[2]) /\ b[1] \in TableNames(_filtered_builtin_properties)) =>
              b[1] \notin ListedNames(p.page)

\* The page of class In, whose __eq__ has no docstring and whose
\* __weakref__ has one of its own, and the page of class Pub, whose __eq__
\* has the docstring of the table.
C13_Witness ==
    \E p, q \in ClassPages :
        /\ p.object = "In"
        /\ <<"__eq__", Heap["In.__eq__"].doc>> \notin _filtered_builtin_functions
        /\ <<"__weakref__", Heap["In.__weakref__"].doc>> \notin _filtered_builtin_properties
        /\ "__eq__" \in Range(p.page.dunder_methods)
        /\ p.page.properties = <<>>
        /\ q.object = "Pub"
        /\ <<"__eq__", Heap["__eq__"].doc>> \in _filtered_builtin_functions
        /\ "__eq__" \notin Range(q.page.dunder_methods)

RoutineBuckets == <<"dunder_methods", "classmethods", "staticmethods", "methods">>

\* The first bucket, in the fixed order, a routine qualifies for.
FirstBucket(name, object) ==
    IF IsDunder(name) THEN "dunder_methods"
    ELSE IF Heap[object].flavor = "classmethod" THEN "classmethods"
    ELSE IF Heap[object].flavor = "staticmethod" THEN "staticmethods"
    ELSE "methods"

\* The number of elements of seq equal to x.
Count(seq, x) == Cardinality({ i \in 1..Len(seq) : seq[i] = x })

\* C14: on a class page every routine that survives filtering is in
\* exactly one of dunder_methods, classmethods, staticmethods and methods,
\* once, in the first bucket of that order it qualifies for; it is in
\* dunder_methods exactly when its name begins and ends with two
\* underscores, whatever its binding flavour.
C14_RoutineBuckets ==
    \A p \in ClassPages : \A b \in Range(Members(p.object)) :
        (isroutine(b[2]) /\ class_member_list("methods", b[1], b[2]) # "") =>
            /\ \A l \in Range(RoutineBuckets) :
                  Count(p.page[l], b[1]) = (IF l = FirstBucket(b[1], b[2]) THEN 1 ELSE 0)
            /\ b[1] \in Range(p.page.dunder_methods) <=> IsDunder(b[1])

\* The page of class In lists the class method __c__ among the dunder
\* methods and leaves out __r, whose name begins with two underscores and
\* does not end with two; the page of class Pub fills the other buckets.
C14_Witness ==
    \E p, q \in ClassPages :
        /\ p.object = "In"
        /\ Heap["cm"].flavor = "classmethod"
        /\ "__c__" \in Range(p.page.dunder_methods)
        /\ p.page.classmethods = <<>>
        /\ "__r" \notin ListedNames(p.page)
        /\ q.object = "Pub"
        /\ q.page.classmethods # <<>>
        /\ q.page.staticmethods # <<>>
        /\ q.page.methods # <<>>

---------------------------------------------------------------------------
(* C15: the hooks called before a page. *)

\* The pages the walk and the authored-page loop emitted.
HookedPages == { k \in 1..Len(pages) : pages[k].fn \in {"render_module", "render_class", "render_page"} }

\* The activations that have called the hooks and not yet rendered.
Unrendered == { k \in 1..Len(stack) : stack[k].pc \notin {"children", "done"} }

\* C15 (as stated): after a completed run every hook has been called as
\* many times as pages were emitted.
C15_Original ==
    run.pc = "done" =>
        \A h \in Range(hooks_pre_page) : Count(hooks_called, h) = Len(pages)

\* C15 (amended): the hooks are always called as a whole round, in
\* registration order; one round is called when the run starts, before any
\* page, and one more for every module, class or authored page, when its
\* walk is entered, so that a completed run has called every hook once more
\* than the number of pages it emitted.
C15_HookRounds ==
    /\ \A k \in 1..Len(hooks_called) :
          hooks_called[k] = hooks_pre_page[((k - 1) % Len(hooks_pre_page)) + 1]
    /\ run.pc \notin {"hooks", "raised"} =>
          Len(hooks_called) = Len(hooks_pre_page)
                                * (1 + Cardinality(HookedPages) + Cardinality(Unrendered))
    /\ run.pc = "done" =>
          \A h \in Range(hooks_pre_page) :
            Count(hooks_called, h) = Cardinality(HookedPages) + 1

\* A completed run that emitted module pages, class pages reached by
\* recursion and the authored pages.
C15_Witness ==
    /\ run.pc = "done"
    /\ \E p \in ClassPages : Len(p.path) >= 3
    /\ \E k \in 1..Len(pages) : pages[k].fn = "render_module" /\ Len(pages[k].path) >= 2
    /\ \E k \in 1..Len(pages) : pages[k].fn = "render_page"
    /\ Len(hooks_called) = Len(hooks_pre_page) * (Len(pages) + 1)

---------------------------------------------------------------------------
(* C16: a page is rendered before its children are walked. *)

\* C16: while a child module or class is walked, every activation under it
\* has rendered its page and released its lists, with or without an export
\* list; no page is emitted before the page of its parent.
C16_RenderBeforeChildren ==
    /\ \A k \in 1..(Len(stack) - 1) :
          stack[k].pc = "children" /\ stack[k].page = EmptyPage
    /\ \A j \in 1..Len(pages) :
          (pages[j].fn \in {"render_module", "render_class"} /\ Len(pages[j].path) > 1) =>
              \E k \in 1..(j - 1) : pages[k].path = SubSeq(pages[j].path, 1, Len(pages[j].path) - 1)

---------------------------------------------------------------------------
(* C17: the report of the external docs nothing used. *)

\* The keys of a supplied table.
DocKeys(docs) == { docs[k].key : k \in 1..Len(docs) }

\* key is in a warning of the log about the unused docs of a kind.
Reported(what, key) ==
    \E k \in 1..Len(log) :
        /\ log[k][1] = "The following " \o what \o " doc contents were unused: %s"
        /\ key \in Range(log[k][2])

\* A page of the walk function fn was emitted for the dotted path key.
PageEmitted(fn, key) ==
    \E k \in 1..Len(pages) : pages[k].fn = fn /\ Join(pages[k].path, ".") = key

\* A data attribute of the dotted path key is on an emitted page.
DataExtracted(key) ==
    \E k \in 1..Len(pages) : \E n \in Range(pages[k].page.data) :
        Join(Append(pages[k].path, n), ".") = key

\* What the report says once it is made.
C17_Reported ==
    run.pc \in {"pages", "done"} =>
        /\ ret = Ok(<<>>)
        /\ \A key \in DocKeys(SuppliedDocs.module_docs) :
              Reported("module", key) <=> ~PageEmitted("render_module", key)
        /\ \A key \in DocKeys(SuppliedDocs.class_docs) :
              Reported("class", key) <=> ~PageEmitted("render_class", key)
        /\ \A key \in DocKeys(SuppliedDocs.data_docs) :
              Reported("data", key) <=> ~DataExtracted(key)

\* C17: once the walk has returned, a supplied module or class entry is
\* reported as unused exactly when no module page, respectively class page,
\* of its path was emitted, and a data entry exactly when no data attribute
\* of its path was extracted; the report raises nothing and the run goes on
\* to the authored pages.
C17_UnusedReport ==
    /\ []C17_Reported
    /\ [][run.pc = "report" => (run'.pc = "pages" /\ ret' = ret /\ pages' = pages)]_vars

\* A completed run whose report named some entries of each table and left
\* out the entries the walk used.
C17_Witness ==
    /\ run.pc = "done"
    /\ Reported("module", "lib.zz") /\ ~Reported("module", "lib.n")
    /\ Reported("class", "lib.n") /\ ~Reported("class", "lib.n.Pub.In")
    /\ Reported("data", "lib.y") /\ ~Reported("data", "lib.Pub.x")

---------------------------------------------------------------------------
(* C18: the flag of the module entries of the index. *)

\* An entry of the list is a module.
HasModule(list) == \E k \in 1..Len(list) : list[k].kind = "module"

\* Every module entry of the tree has the flag that tells whether one of
\* its direct children is a module.
RECURSIVE FlagsRight(_)
FlagsRight(list) ==
    \A k \in 1..Len(list) :
        /\ list[k].kind = "module" =>
              list[k].has_nestable_children = Some(HasModule(list[k].children))
        /\ FlagsRight(list[k].children)

---------------------------------------------------------------------------
(* C19: a member of no recognized kind. *)

\* An object that is no module, class, enum, function, builtin or data.
UnknownKind(o) == ~(ismodule(o) \/ isclass(o) \/ isfunction_or_builtin(o) \/ is_data(o))

\* The members a module walk looks at: the exported ones, or in inspection
\* mode the ones whose name does not begin with an underscore.
Considered(object) ==
    IF ExportList(object) # None THEN Range(Exported(object))
    ELSE { b \in Range(Members(object)) : ~is_underscored(b[1]) }

\* C19: a member of no recognized kind, exported or found by inspection,
\* never aborts the run, is in no member list of the page, and is skipped
\* with a warning in the log.
C19_UnknownKindSkipped ==
    /\ ret.exc # "AssertionError"
    /\ \A k \in 1..Len(pages) :
          pages[k].fn = "render_module" =>
              \A b \in Considered(pages[k].object) :
                  UnknownKind(b[2]) =>
                      /\ b[1] \notin ListedNames(pages[k].page)
                      /\ <<"unknown symbol %s in %s", b[1], Join(pages[k].path, ".")>>
                            \in Range(log)

---------------------------------------------------------------------------
(* C20: the walk of an object graph with cycles. *)

\* C20: a container that is being visited is not walked again: no object
\* has two activations at a time, and the walk never runs into the
\* recursion limit of the interpreter.
C20_NoRewalk ==
    /\ \A j, k \in 1..Len(stack) : j # k => stack[j].object # stack[k].object
    /\ ret.exc # "RecursionError"

---------------------------------------------------------------------------
(* C21: the summary of a module or class page. *)

WalkPages == { p \in Range(pages) : p.fn \in {"render_module", "render_class"} }

\* The table render_module, respectively render_class, looks the page up in,
\* as it was supplied.
TableOf(fn) ==
    IF fn = "render_module" THEN SuppliedDocs.module_docs ELSE SuppliedDocs.class_docs

\* The summaries of the entries of a table for a dotted path: one or none.
SuppliedSummaries(docs, key) == { docs[k].summary : k \in { j \in 1..Len(docs) : docs[j].key = key } }

\* C21 (as stated): the summary of a page whose path has an external entry
\* is the rendered summary of the entry, whatever the entry holds; the
\* summary of another page is the escaped first paragraph of the docstring,
\* and empty without a docstring.
C21_Original ==
    \A p \in WalkPages :
        IF SuppliedSummaries(TableOf(p.fn), Join(p.path, ".")) # {}
        THEN \E x \in SuppliedSummaries(TableOf(p.fn), Join(p.path, ".")) :
                 p.summary = render_inline_rst(x)
        ELSE p.summary = extract_summary_doc(Heap[p.object].doc)

\* C21 (amended): the summary of a page whose path has an external entry
\* with a summary that is not empty is the rendered summary of the entry;
\* the summary of a page with no entry, or with an entry whose summary is
\* empty, is the escaped first paragraph of the docstring, and empty without
\* a docstring.
C21_Summary ==
    \A p \in WalkPages :
        IF SuppliedSummaries(TableOf(p.fn), Join(p.path, ".")) \ {""} # {}
        THEN \E x \in SuppliedSummaries(TableOf(p.fn), Join(p.path, ".")) :
                 p.summary = render_inline_rst(x)
        ELSE /\ p.summary = extract_summary_doc(Heap[p.object].doc)
             /\ Heap[p.object].doc = "" => p.summary = ""

\* The pages of a module with an external summary, of a module whose
\* entry has an empty summary, and of a module without an entry whose
\* docstring has two paragraphs.
C21_Witness ==
    \E p, q, r \in WalkPages :
        /\ p.path = <<"lib">> /\ p.summary = "The &lt;lib&gt; package."
        /\ q.path = <<"lib", "nat">> /\ q.summary = "Bound."
        /\ SuppliedSummaries(SuppliedDocs.module_docs, "lib.nat") = {""}
        /\ r.path = <<"lib", "_n">> /\ r.summary = "Native &lt;n&gt;."
        /\ SuppliedSummaries(SuppliedDocs.module_docs, "lib._n") = {}

---------------------------------------------------------------------------
(* C22, C25: the function records of the grammar path. *)

\* extract_function_doc returned the records of a docstring generated from
\* call.args.
GrammarRecord ==
    /\ call.fn = "extract_function_doc"
    /\ call.pybind
    /\ call.args # None
    /\ ret.exc = ""

\* The argument name a generated argument starts with.
FormName(form) == RxMatch(_pybind_arg_name_rx, form)

\* The names are arg0, arg1, ... in order, after a leading self when the
\* owner is a class.
Sequential(parent, names) ==
    \A i \in 1..Len(names) :
        \/ parent = "class" /\ i = 1 /\ names[1] = "self"
        \/ names[i] = ArgName(i - 1 - (IF parent = "class" /\ names[1] = "self" THEN 1 ELSE 0))

\* C22: in the record of a signature read from a docstring, *args is
\* VAR_POSITIONAL and **kwargs VAR_KEYWORD, and every other parameter has
\* one and the same kind: POSITIONAL_ONLY when the names of the signature
\* are exactly arg0, arg1, ... in order (after a leading self when the
\* owner is a class), POSITIONAL_OR_KEYWORD for all of them otherwise;
\* *args and **kwargs are names of the signature like the others.
C22_ParameterKinds ==
    GrammarRecord =>
        LET names == [ i \in 1..Len(call.args[1]) |-> FormName(call.args[1][i]) ]
            params == ret.val[1].params
        IN  /\ Len(ret.val) = 1
            /\ Len(params) = Len(names)
            /\ \A i \in 1..Len(names) :
                  params[i].kind =
                      IF names[i] = "*args" THEN "VAR_POSITIONAL"
                      ELSE IF names[i] = "**kwargs" THEN "VAR_KEYWORD"
                      ELSE IF Sequential(call.parent, names) THEN "POSITIONAL_ONLY"
                      ELSE "POSITIONAL_OR_KEYWORD"

\* A method (self, arg0, arg1) whose parameters are all positional-only.
C22_Witness ==
    /\ GrammarRecord
    /\ call.parent = "class"
    /\ call.args = Some(<<"self: m.T", "arg0: int", "arg1=1">>)
    /\ \A i \in 1..3 : ret.val[1].params[i].kind = "POSITIONAL_ONLY"

\* C25: the record of a signature read from a docstring has
\* has_complex_params exactly when one of the parameters it holds has a
\* type or a default that is not empty; a method whose only annotated
\* parameter is self is not flagged, the type of self being left out.
C25_ComplexParams ==
    GrammarRecord =>
        \A k \in 1..Len(ret.val) :
            ret.val[k].has_complex_params
              <=> \E i \in 1..Len(ret.val[k].params) :
                      \/ Truthy(ret.val[k].params[i].type)
                      \/ ret.val[k].params[i].default # ""

---------------------------------------------------------------------------
(* C23: the degenerate tuple read again. *)

\* C23: parse_pybind_signature given the text of a degenerate tuple,
\* name(ellipsis), returns the degenerate tuple again and raises nothing.
C23_EllipsisRoundTrip ==
    (/\ call.fn = "parse_pybind_signature"
     /\ call.text \in ReserializedInputs
     /\ ret.exc # "pending") =>
        /\ ret.exc = ""
        /\ ret.val = DegenerateTuple("f", call.text)
        /\ Reserialize(ret.val) = call.text

---------------------------------------------------------------------------
(* C24, C26: the index tree and the summaries of a module. *)

\* The entries of an index tree with the path each one stands at.
RECURSIVE Located(_, _)
Located(list, prefix) ==
    UNION { {[path |-> Append(prefix, list[k].name), entry |-> list[k]]}
               \cup Located(list[k].children, Append(prefix, list[k].name)) :
            k \in 1..Len(list) }

\* The number of entries of an index tree.
RECURSIVE Sum(_)
Sum(counts) == IF counts = <<>> THEN 0 ELSE counts[1] + Sum(Tail(counts))
RECURSIVE Size(_)
Size(list) == Len(list) + Sum([ k \in 1..Len(list) |-> Size(list[k].children) ])

Names(list) == [ k \in 1..Len(list) |-> list[k].name ]

\* The index entries of the walk so far: the class index, and the children
\* the activations hold.
EntriesSoFar ==
    Located(state.class_index, <<>>)
      \cup UNION { Located(stack[k].children, stack[k].path) : k \in 1..Len(stack) }

\* C24: the summary a module page shows for a submodule in its module list
\* is the summary of the page of the submodule and of its index entry,
\* whatever the external tables hold.
C24_SubmoduleSummary ==
    \A p \in WalkPages : \A k \in 1..Len(p.entries) :
        p.entries[k].name \in Range(p.page.modules) =>
            /\ \A q \in WalkPages :
                  q.path = Append(p.path, p.entries[k].name) =>
                      p.entries[k].summary = q.summary
            /\ \A e \in EntriesSoFar :
                  e.path = Append(p.path, p.entries[k].name) =>
                      p.entries[k].summary = e.entry.summary

WalkDone == run.pc \in {"report", "pages", "done"}

\* C26: when the walk is over the index tree has one entry for every
\* module or class page emitted and no other: the entry stands at the path
\* of the page with its kind and url, its children are the modules and
\* classes listed on the page, in the order they were walked, and the top
\* level holds the root modules in input order.
C26_IndexTree ==
    WalkDone =>
        /\ Size(state.class_index) = Cardinality({ k \in 1..Len(pages) : pages[k] \in WalkPages })
        /\ { <<e.path, e.entry.kind, e.entry.url>> : e \in Located(state.class_index, <<>>) }
             = { <<p.path, IF p.fn = "render_module" THEN "module" ELSE "class", p.url>> :
                   p \in WalkPages }
        /\ \A e \in Located(state.class_index, <<>>) : \A p \in WalkPages :
              p.path = e.path =>
                  /\ Names(e.entry.children) = Names(p.entries)
                  /\ e.entry.url = make_url(p.path)
        /\ Names(state.class_index) = INPUT_MODULES

\* A finished run whose tree holds both root modules, a module under the
\* first, a class under that module and a class under that class, while
\* the page of the root lists an enum that has no entry.
C26_Witness ==
    /\ run.pc = "done"
    /\ \E e \in Located(state.class_index, <<>>) :
          e.path = <<"lib", "n", "Pub", "In">> /\ e.entry.url = "lib.n.Pub.In.html"
    /\ \E p \in WalkPages : p.path = <<"lib">> /\ p.page.enums # <<>>
    /\ Len(state.class_index) = 2
    /\ state.class_index[2].children = <<>>

=============================================================================
